---------------------------- MODULE Spec2Model ----------------------------
(***************************************************************************)
(* Model of the OSEPL4 L1 telemetry codec:                                 *)
(*   src/src/fake_tm_generator.py  value_to_bytes, epoch_to_bytes,         *)
(*                                 create_hex_bitstring_from_data,         *)
(*                                 generate_multiple_bitstrings            *)
(*   src/src/parser.py             BitStringParser.bytes_to_value,         *)
(*                                 bytes_to_tt2000, parse_bitstring,       *)
(*                                 parse_multiple_bitstrings               *)
(*                                                                         *)
(* Python integers are unbounded, and the timestamps are 64-bit, so an     *)
(* integer is modelled as the sequence of its base-256 digits, least       *)
(* significant first, without leading zero digits (0 is <<>>).  A Python   *)
(* float is an IEEE-754 double, modelled exactly as man * 2^exp with an    *)
(* odd integer mantissa of at most 53 bits.                                *)
(***************************************************************************)
EXTENDS Integers, Sequences, FiniteSets, TLC

VARIABLES
    tz,                \* the host's UTC offset in seconds (the process's local zone)
    today,             \* the host's calendar day, read by datetime.now()
    self,              \* the BitStringParser instance: its num_* fields
    call,              \* the most recent call of the codec: op, arg, ret
    file,              \* the container text file: [text], with the records
                       \* drawn for it when the writer made it; None when absent
    lines,             \* parse_multiple_bitstrings: the lines of the open file
    lineno,            \* ... the number of lines the for loop has consumed
    current_index,     \* ... its local current_index
    current_bitstring, \* ... its local current_bitstring
    results,           \* ... its local results
    parsed,            \* ... the strings it has handed to parse_bitstring
    warnings,          \* ... the header lines its warning was printed for
    scan_pc,           \* ... "idle", or "scan" while the for loop runs
    workers            \* concurrent callers of one parser: the call each
                       \* has made and the locals of each running call

vars == <<tz, today, self, call, file, lines, lineno, current_index,
          current_bitstring, results, parsed, warnings, scan_pc, workers>>

(***************************************************************************)
(* Schema dimensions.  The program fixes energy = 16, azimuthal = 7,       *)
(* incident = 6, cycles = 45, electrodes = 3 (parser.py:13-17,             *)
(* fake_tm_generator.py:346-350); the model runs the same loops over       *)
(* smaller grids.                                                          *)
(***************************************************************************)
num_energy == 2

num_azimuthal == 2

num_incident == 2

num_cycles == 2

num_electrode == 2

(***************************************************************************)
(* Unbounded naturals: base-256 digits, least significant digit first.     *)
(***************************************************************************)
Byte == 0..255

\* F(v): the expression F of the value v, computed once (a LET whose name
\* is a parameter)
Bind(v, F(_)) == CHOOSE y \in {F(x) : x \in {v}} : TRUE

\* the digit of weight 256^(i-1), zero beyond the last
Digit(a, i) == IF i \in 1..Len(a) THEN a[i] ELSE 0

\* the sequence f, every element computed (once)
Tuple(f) == f \o <<>>

\* d without its leading zero digits
Trim(d) ==
    IF \A i \in 1..Len(d) : d[i] = 0 THEN <<>>
    ELSE SubSeq(d, 1, CHOOSE i \in 1..Len(d) :
                          d[i] # 0 /\ \A j \in (i + 1)..Len(d) : d[j] = 0)

BNorm(d) == Bind(Tuple(d), LAMBDA t : Trim(t))

\* the digits of n < 2^31
BFromNat(n) == BNorm([i \in 1..4 |-> (n \div (256 ^ (i - 1))) % 256])

\* the number d < 2^31
BToNat(d) ==
    Digit(d, 1) + 256 * Digit(d, 2) + 65536 * Digit(d, 3)
    + 16777216 * Digit(d, 4)

\* -1, 0, 1 as a < b, a = b, a > b (both without leading zeros)
BCmp(a, b) ==
    IF Len(a) < Len(b) THEN -1
    ELSE IF Len(a) > Len(b) THEN 1
    ELSE IF \A i \in 1..Len(a) : a[i] = b[i] THEN 0
    ELSE Bind(CHOOSE i \in 1..Len(a) :
                  a[i] # b[i] /\ \A j \in (i + 1)..Len(a) : a[j] = b[j],
              LAMBDA i : IF a[i] < b[i] THEN -1 ELSE 1)

\* the carry into digit i of a + b: some lower digit sum overflows and
\* every digit sum between it and i is 255
Carry(a, b, i) ==
    \E j \in 1..(i - 1) :
        /\ Digit(a, j) + Digit(b, j) >= 256
        /\ \A h \in (j + 1)..(i - 1) : Digit(a, h) + Digit(b, h) = 255

BAdd(a, b) ==
    BNorm([i \in 1..((IF Len(a) > Len(b) THEN Len(a) ELSE Len(b)) + 1) |->
              (Digit(a, i) + Digit(b, i)
               + (IF Carry(a, b, i) THEN 1 ELSE 0)) % 256])

\* the borrow from digit i of a - b
Borrow(a, b, i) ==
    \E j \in 1..(i - 1) :
        /\ Digit(a, j) < Digit(b, j)
        /\ \A h \in (j + 1)..(i - 1) : Digit(a, h) = Digit(b, h)

\* a - b for a >= b
BSub(a, b) ==
    BNorm([i \in 1..Len(a) |->
              (256 + a[i] - Digit(b, i)
               - (IF Borrow(a, b, i) THEN 1 ELSE 0)) % 256])

\* byte j (0..3) of every product a[i] * k, at its weight
MulPart(a, k, j) ==
    [i \in 1..(Len(a) + j) |->
        IF i <= j THEN 0 ELSE ((a[i - j] * k) \div (256 ^ j)) % 256]

\* a * k for a small factor k (k < 2^22)
BMulSmall(a, k) ==
    Bind(BAdd(MulPart(a, k, 0), MulPart(a, k, 1)), LAMBDA low :
    Bind(BAdd(MulPart(a, k, 2), MulPart(a, k, 3)), LAMBDA high :
        BAdd(low, high)))

\* the digits of a from digit i up, modulo k
RECURSIVE BRem(_, _, _)
BRem(a, k, i) ==
    IF i > Len(a) THEN 0 ELSE (BRem(a, k, i + 1) * 256 + a[i]) % k

\* quotient and remainder of a by a small divisor k (k < 2^22)
BDivSmall(a, k) ==
    [q |-> BNorm([i \in 1..Len(a) |->
                     (BRem(a, k, i + 1) * 256 + a[i]) \div k]),
     r |-> BRem(a, k, 1)]

BIsOdd(a) == Digit(a, 1) % 2 = 1

\* number of significant bits of n < 2^30
BitsOfNat(n) == CHOOSE b \in 0..30 : n < 2 ^ b /\ (b = 0 \/ n >= 2 ^ (b - 1))

\* number of significant bits of a
BBitLen(a) == IF Len(a) = 0 THEN 0 ELSE 8 * (Len(a) - 1) + BitsOfNat(a[Len(a)])

\* a * 2^k
BShl(a, k) ==
    BNorm([i \in 1..(Len(a) + k \div 8 + 1) |->
              ((Digit(a, i - k \div 8) * (2 ^ (k % 8))) % 256)
              + (Digit(a, i - k \div 8 - 1) \div (2 ^ (8 - (k % 8))))])

\* a \div 2^k
BShr(a, k) ==
    IF k \div 8 >= Len(a) THEN <<>>
    ELSE
    BNorm([i \in 1..(Len(a) - k \div 8) |->
              (Digit(a, i + k \div 8) \div (2 ^ (k % 8)))
              + ((Digit(a, i + k \div 8 + 1) * (2 ^ (8 - (k % 8)))) % 256)])

\* a mod 2^k
BLowBits(a, k) ==
    BNorm([i \in 1..(k \div 8 + 1) |->
              IF i <= k \div 8 THEN Digit(a, i)
              ELSE Digit(a, i) % (2 ^ (k % 8))])

(***************************************************************************)
(* IEEE-754 doubles (the Python float), non-negative, as man * 2^exp with  *)
(* man odd (or zero).  Every operation rounds its exact result to 53 bits, *)
(* ties to even, as the hardware does.                                     *)
(***************************************************************************)
\* m * 2^e with the trailing zero bits of m moved into the exponent
DNorm(m, e) ==
    IF Len(m) = 0 THEN [man |-> <<>>, exp |-> 0]
    ELSE Bind(CHOOSE i \in 1..Len(m) :
                  m[i] # 0 /\ \A j \in 1..(i - 1) : m[j] = 0, LAMBDA zb :
         Bind(CHOOSE n \in 0..7 :
                  m[zb] % (2 ^ n) = 0 /\ m[zb] % (2 ^ (n + 1)) # 0, LAMBDA t :
            [man |-> BShr(m, 8 * (zb - 1) + t), exp |-> e + 8 * (zb - 1) + t]))

\* n \div 2^s rounded to the nearest integer, ties to even
BRoundShr(n, s) ==
    IF s <= 0 THEN n
    ELSE Bind(BShr(n, s), LAMBDA q :
         Bind(BCmp(BLowBits(n, s), BShl(<<1>>, s - 1)), LAMBDA c :
            IF c > 0 \/ (c = 0 /\ BIsOdd(q)) THEN BAdd(q, <<1>>) ELSE q))

\* the double nearest to n * 2^e
DRound(n, e) ==
    Bind(n, LAMBDA m :
    Bind(BBitLen(m) - 53, LAMBDA s :
        IF s <= 0 THEN DNorm(m, e)
        ELSE Bind(BRoundShr(m, s), LAMBDA r : DNorm(r, e + s))))

\* float(n) for an integer n
DFromInt(n) == DRound(n, 0)

\* x * k for a small positive integer k
DMulSmall(x, k) == Bind(x, LAMBDA v : DRound(BMulSmall(v.man, k), v.exp))

\* x / k for a small positive integer k: the quotient to 56 bits or more,
\* with a sticky bit for the remainder, then rounded
DDivSmall(x, k) ==
    IF x.man = <<>> THEN x
    ELSE Bind(56 + BitsOfNat(k) - BBitLen(x.man), LAMBDA need :
         Bind(IF need > 0 THEN need ELSE 0, LAMBDA j :
         Bind(BShl(x.man, j), LAMBDA shifted :
         Bind(BDivSmall(shifted, k), LAMBDA d :
         Bind(BShl(d.q, 1), LAMBDA twice :
            DRound(BAdd(twice, IF d.r = 0 THEN <<>> ELSE <<1>>),
                   x.exp - j - 1))))))

DAdd(x, y) ==
    Bind(IF x.exp < y.exp THEN x.exp ELSE y.exp, LAMBDA e :
    Bind(BShl(x.man, x.exp - e), LAMBDA xm :
    Bind(BShl(y.man, y.exp - e), LAMBDA ym :
        DRound(BAdd(xm, ym), e))))

\* the integer part of x: int(x), and the first result of modf
DTrunc(x) == IF x.exp >= 0 THEN BShl(x.man, x.exp) ELSE BShr(x.man, 0 - x.exp)

\* the fractional part of x (exact): the second result of modf
DFrac(x) ==
    IF x.exp >= 0 THEN DNorm(<<>>, 0) ELSE DNorm(BLowBits(x.man, 0 - x.exp), x.exp)

\* x rounded to the nearest integer, ties to even (_PyTime_ROUND_HALF_EVEN)
DRoundHalfEven(x) ==
    IF x.exp >= 0 THEN BShl(x.man, x.exp) ELSE BRoundShr(x.man, 0 - x.exp)

(***************************************************************************)
(* datetime: a naive local datetime is [wall, us]: wall is the number of   *)
(* seconds from 1970-01-01T00:00:00 of the local calendar to the second    *)
(* the datetime names, us its microsecond field.  The host's zone is a     *)
(* fixed offset z (seconds east of UTC).  A call that raises is modelled   *)
(* by the value [err |-> <exception>].                                     *)
(***************************************************************************)
Raised(r) == "err" \in DOMAIN r

\* 9999-12-31T23:59:59, the last second a datetime can name
MaxWall == <<127, 65, 244, 255, 58>>

LocalDatetime(t, us, z) == [wall |-> BAdd(t, BFromNat(z)), us |-> us]

\* datetime.datetime.fromtimestamp(x): modf, microseconds rounded half to
\* even, carry into the seconds, then the local calendar fields
fromtimestamp(x, z) ==
    Bind(DFrac(x), LAMBDA frac :
    Bind(DMulSmall(frac, 1000000), LAMBDA scaled :
    Bind(BToNat(DRoundHalfEven(scaled)), LAMBDA us :
    Bind(BAdd(BAdd(DTrunc(x), IF us >= 1000000 THEN <<1>> ELSE <<>>),
              BFromNat(z)), LAMBDA wall :
        IF BCmp(wall, MaxWall) > 0 THEN [err |-> "ValueError"]
        ELSE [wall |-> wall,
              us   |-> IF us >= 1000000 THEN us - 1000000 ELSE us]))))

\* datetime.timestamp() of a naive datetime: local seconds to UTC seconds,
\* plus microsecond / 1e6.  The conversion first reads the wall clock as
\* if it were UTC and asks for the local time of that instant, which
\* raises ValueError when it lies beyond year 9999 (zones east of UTC).
timestamp(dt, z) ==
    IF BCmp(BAdd(dt.wall, BFromNat(z)), MaxWall) > 0
    THEN [err |-> "ValueError"]
    ELSE Bind(DFromInt(BSub(dt.wall, BFromNat(z))), LAMBDA seconds :
         Bind(DFromInt(BFromNat(dt.us)), LAMBDA us :
         Bind(DDivSmall(us, 1000000), LAMBDA frac :
            DAdd(seconds, frac))))

\* int(dt.timestamp() * 1000)
timestamp_ms(dt, z) ==
    Bind(timestamp(dt, z), LAMBDA t :
        IF Raised(t) THEN t
        ELSE Bind(DMulSmall(t, 1000), LAMBDA ms : [int |-> DTrunc(ms)]))

(***************************************************************************)
(* Python values.  int: [int |-> magnitude] (with neg |-> TRUE when        *)
(* negative); float: [float |-> double, neg |-> sign bit], or              *)
(* [inf |-> TRUE, neg |-> sign bit]; None: [none |-> TRUE]; bytes:         *)
(* [bytes |-> sequence of 0..255].                                         *)
(***************************************************************************)
PyInt(n) == [int |-> n]

PyNeg(n) == [int |-> n, neg |-> TRUE]

PyNone == [none |-> TRUE]

PyFloat(sign, m, e) == [float |-> DNorm(m, e), neg |-> sign]

PyInf(sign) == [inf |-> TRUE, neg |-> sign]

PyBytes(b) == [bytes |-> b]

IsInt(v) == "int" \in DOMAIN v

IsNone(v) == "none" \in DOMAIN v

IsBytes(v) == "bytes" \in DOMAIN v

Reverse(s) == [i \in 1..Len(s) |-> s[Len(s) + 1 - i]]

Zeros(n) == [i \in 1..n |-> 0]

\* A faulty variant of BigEndian: the least significant byte comes first.
BigEndian_swapped(d, n) == d \o Zeros(n - Len(d))

\* the big-endian n-byte form of a natural below 256^n
BigEndian(d, n) == Reverse(d \o Zeros(n - Len(d)))

\* A faulty variant of struct_pack_uint: no range check, the value is
\* reduced modulo 256^n (and a negative value loses its sign).
struct_pack_uint_wrapping(value, n) ==
    IF ~IsInt(value) THEN [err |-> "struct.error"]
    ELSE PyBytes(BigEndian(SubSeq(value.int, 1,
                                  IF Len(value.int) < n THEN Len(value.int) ELSE n),
                           n))

\* struct.pack('>B' | '>H' | '>I' | '>Q', value): n = 1, 2, 4, 8
struct_pack_uint(value, n) ==
    IF ~IsInt(value) THEN [err |-> "struct.error"]
    ELSE IF "neg" \in DOMAIN value THEN [err |-> "struct.error"]
    ELSE IF Len(value.int) > n THEN [err |-> "struct.error"]
    ELSE PyBytes(BigEndian(value.int, n))

\* struct.unpack('>B' | '>H' | '>I' | '>Q', byte_data)[0]: n = 1, 2, 4, 8
struct_unpack_uint(byte_data, n) ==
    IF Len(byte_data) # n THEN [err |-> "struct.error"]
    ELSE PyInt(BNorm(Reverse(byte_data)))

\* The IEEE-754 bit pattern of a float in a format with p significand bits
\* (hidden bit included) and exponents emin..emax, as a natural; the C cast
\* rounds to nearest, ties to even, and struct refuses a finite value that
\* rounds to infinity.
FloatBits(value, p, emin, emax, ebits) ==
    Bind(IF value.neg THEN BShl(<<1>>, p - 1 + ebits) ELSE <<>>, LAMBDA signbit :
    IF "inf" \in DOMAIN value
    THEN [bits |-> BAdd(signbit, BShl(BFromNat(2 * (emax + 1) - 1), p - 1))]
    ELSE IF value.float.man = <<>> THEN [bits |-> signbit]
    ELSE
    Bind(value.float, LAMBDA x :
    Bind(x.exp + BBitLen(x.man) - 1, LAMBDA e :
    Bind(IF e < emin THEN emin - (p - 1) ELSE e - (p - 1), LAMBDA q0 :
    Bind(IF x.exp >= q0 THEN BShl(x.man, x.exp - q0)
         ELSE BRoundShr(x.man, q0 - x.exp), LAMBDA m0 :
    Bind(BBitLen(m0) > p, LAMBDA carry :
    Bind(IF carry THEN BShr(m0, 1) ELSE m0, LAMBDA m :
    Bind(IF carry THEN q0 + 1 ELSE q0, LAMBDA q :
    Bind(BBitLen(m) = p, LAMBDA normal :
    Bind(IF normal THEN q + (p - 1) + emax ELSE 0, LAMBDA biased :
        IF biased > 2 * emax THEN [err |-> "OverflowError"]
        ELSE [bits |-> BAdd(signbit,
                            BAdd(BShl(BFromNat(biased), p - 1),
                                 IF normal THEN BLowBits(m, p - 1) ELSE m))]
    ))))))))))

\* The float a bit pattern denotes (NaN patterns are not modelled: the
\* model's floats are finite or infinite)
FloatOfBits(b, p, emin, emax, ebits) ==
    Bind(BBitLen(b) = p + ebits, LAMBDA sign :
    Bind(BLowBits(b, p - 1 + ebits), LAMBDA rest :
    Bind(BToNat(BShr(rest, p - 1)), LAMBDA biased :
    Bind(BLowBits(rest, p - 1), LAMBDA frac :
        IF biased = 2 * emax + 1 THEN PyInf(sign)
        ELSE IF biased = 0 THEN PyFloat(sign, frac, emin - (p - 1))
        ELSE PyFloat(sign, BAdd(BShl(<<1>>, p - 1), frac),
                     biased - emax - (p - 1))))))

\* struct.pack('>f', value)
struct_pack_f(value) ==
    Bind(FloatBits(value, 24, -126, 127, 8), LAMBDA r :
        IF Raised(r) THEN r ELSE PyBytes(BigEndian(r.bits, 4)))

\* struct.pack('>d', value)
struct_pack_d(value) ==
    Bind(FloatBits(value, 53, -1022, 1023, 11), LAMBDA r :
        IF Raised(r) THEN r ELSE PyBytes(BigEndian(r.bits, 8)))

\* struct.unpack('>f', byte_data)[0]
struct_unpack_f(byte_data) ==
    IF Len(byte_data) # 4 THEN [err |-> "struct.error"]
    ELSE FloatOfBits(BNorm(Reverse(byte_data)), 24, -126, 127, 8)

\* struct.unpack('>d', byte_data)[0]
struct_unpack_d(byte_data) ==
    IF Len(byte_data) # 8 THEN [err |-> "struct.error"]
    ELSE FloatOfBits(BNorm(Reverse(byte_data)), 53, -1022, 1023, 11)

(***************************************************************************)
(* ValueCodec                                                              *)
(***************************************************************************)
\* fake_tm_generator.value_to_bytes: a width other than 1, 2, 4, 8 falls
\* off the end of the function, which returns None
value_to_bytes(value, num_bytes, is_float) ==
    IF is_float
    THEN IF num_bytes = 4 THEN struct_pack_f(value) ELSE struct_pack_d(value)
    ELSE IF num_bytes \in {1, 2, 4, 8} THEN struct_pack_uint(value, num_bytes)
    ELSE PyNone

\* BitStringParser.bytes_to_value: the width is the length of the slice it
\* is given; an integer slice of another length returns None
bytes_to_value(byte_data, is_float) ==
    IF is_float
    THEN IF Len(byte_data) = 4 THEN struct_unpack_f(byte_data)
         ELSE struct_unpack_d(byte_data)
    ELSE IF Len(byte_data) \in {1, 2, 4, 8}
         THEN struct_unpack_uint(byte_data, Len(byte_data))
    ELSE PyNone

(***************************************************************************)
(* TimestampCodec                                                          *)
(***************************************************************************)
\* A faulty variant of epoch_to_bytes: the milliseconds are counted from
\* the start of the host's current day instead of from the epoch.
epoch_to_bytes_since_today(epoch) ==
    Bind(timestamp_ms(epoch, tz), LAMBDA ms :
        IF Raised(ms) THEN ms
        ELSE struct_pack_uint(PyInt(BAdd(ms.int, BFromNat(today))), 8))

\* fake_tm_generator.epoch_to_bytes(epoch)
epoch_to_bytes(epoch) ==
    Bind(timestamp_ms(epoch, tz), LAMBDA ms :
        IF Raised(ms) THEN ms ELSE struct_pack_uint(ms, 8))

\* BitStringParser.bytes_to_tt2000(byte_data): (dt, dt.isoformat()); the
\* ISO string names the local calendar fields of dt
bytes_to_tt2000(byte_data) ==
    Bind(struct_unpack_uint(byte_data, 8), LAMBDA ms :
    IF Raised(ms) THEN ms
    ELSE
    Bind(DFromInt(ms.int), LAMBDA n :
    Bind(DDivSmall(n, 1000), LAMBDA x :
    Bind(fromtimestamp(x, tz), LAMBDA dt :
        IF Raised(dt) THEN dt
        ELSE [dt |-> dt, iso |-> <<dt.wall, dt.us>>]))))

(***************************************************************************)
(* Hex text: a string is a sequence of one-character strings.              *)
(***************************************************************************)
HexDigits == <<"0", "1", "2", "3", "4", "5", "6", "7",
               "8", "9", "a", "b", "c", "d", "e", "f">>

UpperHexDigits == <<"0", "1", "2", "3", "4", "5", "6", "7",
                    "8", "9", "A", "B", "C", "D", "E", "F">>

RECURSIVE FlattenRange(_, _, _)
FlattenRange(ss, lo, hi) ==
    IF lo > hi THEN <<>>
    ELSE IF lo = hi THEN ss[lo]
    ELSE LET mid == (lo + hi) \div 2
         IN  FlattenRange(ss, lo, mid) \o FlattenRange(ss, mid + 1, hi)

\* the concatenation of a sequence of sequences, in order
Flatten(ss) == FlattenRange(ss, 1, Len(ss))

\* bytearray.hex(): two lowercase digits per byte, high nibble first
hex(bytes) ==
    Tuple([k \in 1..(2 * Len(bytes)) |->
        IF k % 2 = 1 THEN HexDigits[(bytes[(k + 1) \div 2] \div 16) + 1]
        ELSE HexDigits[(bytes[k \div 2] % 16) + 1]])

IsHexChar(ch) ==
    \E v \in 1..16 : HexDigits[v] = ch \/ UpperHexDigits[v] = ch

HexValue(ch) ==
    (CHOOSE v \in 1..16 : HexDigits[v] = ch \/ UpperHexDigits[v] = ch) - 1

IsSpace(ch) == ch \in {" ", "\t", "\n", "\r"}

\* bytes.fromhex(hex_string): pairs of hex digits, white space allowed
\* between pairs only; anything else raises ValueError
fromhex(hex_string) ==
    Bind(SelectSeq([k \in 1..Len(hex_string) |-> k],
                   LAMBDA k : ~IsSpace(hex_string[k])), LAMBDA at :
        IF /\ Len(at) % 2 = 0
           /\ \A k \in 1..Len(at) : IsHexChar(hex_string[at[k]])
           /\ \A j \in 1..(Len(at) \div 2) : at[2 * j] = at[2 * j - 1] + 1
        THEN PyBytes(Tuple([j \in 1..(Len(at) \div 2) |->
                        16 * HexValue(hex_string[at[2 * j - 1]])
                        + HexValue(hex_string[at[2 * j]])]))
        ELSE [err |-> "ValueError"])

(***************************************************************************)
(* BitstringEncoder.  A telemetry record is the eight arguments of         *)
(* create_hex_bitstring_from_data: epochs, start_times and durations are   *)
(* Python sequences, the other five are arrays, modelled as functions of   *)
(* 0-based index tuples.                                                   *)
(***************************************************************************)
\* bytearray.extend over the pieces of a loop, in loop order: the first
\* piece that raised ends the loop; extend(None) raises TypeError
ExtendAll(loop) ==
    Bind(Tuple(loop), LAMBDA pieces :
    IF \E k \in 1..Len(pieces) : Raised(pieces[k]) \/ IsNone(pieces[k])
    THEN Bind(CHOOSE k \in 1..Len(pieces) :
                  /\ Raised(pieces[k]) \/ IsNone(pieces[k])
                  /\ \A h \in 1..(k - 1) :
                        ~(Raised(pieces[h]) \/ IsNone(pieces[h])),
              LAMBDA k : IF Raised(pieces[k]) THEN pieces[k]
                         ELSE [err |-> "TypeError"])
    ELSE PyBytes(Flatten([k \in 1..Len(pieces) |-> pieces[k].bytes])))

\* A faulty variant of ElementBytes: the last two axes of the array are
\* taken in the other order.
ElementBytes_swapped(array, idx, num_bytes, is_float) ==
    Bind([k \in 1..Len(idx) |->
             IF k = Len(idx) THEN idx[Len(idx) - 1]
             ELSE IF k = Len(idx) - 1 THEN idx[Len(idx)] ELSE idx[k]],
         LAMBDA swapped :
            IF swapped \notin DOMAIN array THEN [err |-> "IndexError"]
            ELSE value_to_bytes(array[swapped], num_bytes, is_float))

\* value_to_bytes(array[idx], num_bytes, is_float); an index outside the
\* array raises IndexError
ElementBytes(array, idx, num_bytes, is_float) ==
    IF idx \notin DOMAIN array THEN [err |-> "IndexError"]
    ELSE value_to_bytes(array[idx], num_bytes, is_float)

\* the buffer create_hex_bitstring_from_data starts from: bytearray()
bytearray_new == <<>>

\* fake_tm_generator.create_hex_bitstring_from_data up to the conversion
\* to hex: the byte_array after the eight field loops (or the exception)
encode_byte_array(rec) ==
    ExtendAll(<<
        PyBytes(bytearray_new),
        \* Epochs (TT2000 format, 8 bytes each)
        ExtendAll([k \in 1..Len(rec.epochs) |-> epoch_to_bytes(rec.epochs[k])]),
        \* Electron_Count (2 bytes per value)
        ExtendAll([i \in 1..num_incident |->
          ExtendAll([a \in 1..num_azimuthal |->
            ExtendAll([e \in 1..num_energy |->
              ExtendAll([c \in 1..num_cycles |->
                ElementBytes(rec.electron_counts,
                             <<i - 1, a - 1, e - 1, c - 1>>, 2, FALSE)])])])]),
        \* BG_Count (2 bytes per value)
        ExtendAll([i \in 1..num_incident |->
          ExtendAll([a \in 1..num_azimuthal |->
            ExtendAll([e \in 1..num_energy |->
              ExtendAll([c \in 1..num_cycles |->
                ElementBytes(rec.bg_counts,
                             <<i - 1, a - 1, e - 1, c - 1>>, 2, FALSE)])])])]),
        \* Measure_Energy (4 bytes per value, float)
        ExtendAll([e \in 1..num_energy |->
          ExtendAll([c \in 1..num_cycles |->
            ElementBytes(rec.measure_energy, <<e - 1, c - 1>>, 4, TRUE)])]),
        \* Output_HV (4 bytes per value, float)
        ExtendAll([el \in 1..num_electrode |->
          ExtendAll([e \in 1..num_energy |->
            ExtendAll([i \in 1..num_incident |->
              ExtendAll([c \in 1..num_cycles |->
                ElementBytes(rec.output_hv,
                             <<el - 1, e - 1, i - 1, c - 1>>, 4, TRUE)])])])]),
        \* Datataking_Time_Start (8 bytes each, TT2000 format)
        ExtendAll([k \in 1..Len(rec.start_times) |->
                      epoch_to_bytes(rec.start_times[k])]),
        \* Data_Time_Duration (4 bytes each, float)
        ExtendAll([k \in 1..Len(rec.durations) |->
                      value_to_bytes(rec.durations[k], 4, TRUE)]),
        \* Data_Quality (1 byte each)
        ExtendAll([e \in 1..num_energy |->
          ExtendAll([a \in 1..num_azimuthal |->
            ExtendAll([i \in 1..num_incident |->
              ExtendAll([c \in 1..num_cycles |->
                ElementBytes(rec.data_quality,
                             <<e - 1, a - 1, i - 1, c - 1>>, 1, FALSE)])])])])
    >>)

\* fake_tm_generator.create_hex_bitstring_from_data: the hex string, as
\* [str |-> characters], or the exception
create_hex_bitstring_from_data(rec) ==
    Bind(encode_byte_array(rec), LAMBDA byte_array :
        IF Raised(byte_array) THEN byte_array
        ELSE [str |-> hex(byte_array.bytes)])

\* fake_tm_generator.print_data_structure_analysis: total_size, from the
\* five dimensions
total_size(n_energy, n_azimuthal, n_incident, n_cycles, n_electrode) ==
    LET epoch_size          == n_cycles * 8
        electron_count_size == n_energy * n_azimuthal * n_incident * n_cycles * 2
        bg_count_size       == n_energy * n_azimuthal * n_incident * n_cycles * 2
        measure_energy_size == n_energy * n_cycles * 4
        output_hv_size      == n_electrode * n_energy * n_incident * n_cycles * 4
        start_time_size     == n_cycles * 8
        duration_size       == n_cycles * 4
        data_quality_size   == n_energy * n_azimuthal * n_incident * n_cycles * 1
    IN  epoch_size + electron_count_size + bg_count_size + measure_energy_size
        + output_hv_size + start_time_size + duration_size + data_quality_size

(***************************************************************************)
(* BitstringDecoder                                                        *)
(***************************************************************************)
\* binary_data[pos:pos+w]: a Python slice stops at the end of the data
Slice(binary_data, pos, w) ==
    SubSeq(binary_data, pos + 1,
           IF pos + w < Len(binary_data) THEN pos + w ELSE Len(binary_data))

\* parse_bitstring, a timestamp read: bytes_to_tt2000 and then
\* int(dt.timestamp() * 1000)
tt2000_read(byte_data) ==
    Bind(bytes_to_tt2000(byte_data), LAMBDA v :
    IF Raised(v) THEN v
    ELSE
    Bind(timestamp_ms(v.dt, tz), LAMBDA ms :
        IF Raised(ms) THEN ms
        ELSE [timestamp_ms |-> ms, iso_format |-> v.iso]))

\* one element read: a timestamp read for the timestamps, bytes_to_value
\* for the others
ReadOne(byte_data, kind) ==
    IF kind = "tt2000" THEN tt2000_read(byte_data)
    ELSE bytes_to_value(byte_data, kind = "float")

\* A faulty variant of RowMajor4: the innermost axis is counted from its
\* end.
RowMajor4_backwards(idx, n2, n3, n4) ==
    ((idx[1] * n2 + idx[2]) * n3 + idx[3]) * n4 + (n4 - 1 - idx[4])

\* the row-major position of an index tuple in a grid of the given sizes
RowMajor4(idx, n2, n3, n4) ==
    ((idx[1] * n2 + idx[2]) * n3 + idx[3]) * n4 + idx[4]

\* A faulty variant of ReadLoop: the cursor is advanced once for the whole
\* loop instead of after every element.
ReadLoop_stalled(binary_data, pos, n, w, kind) ==
    Bind(Tuple([k \in 1..n |-> ReadOne(Slice(binary_data, pos, w), kind)]),
         LAMBDA vals :
            IF \E k \in 1..n : Raised(vals[k])
            THEN vals[CHOOSE k \in 1..n :
                          Raised(vals[k]) /\ \A h \in 1..(k - 1) : ~Raised(vals[h])]
            ELSE [pos |-> pos + w, val |-> vals])

\* A faulty variant of ReadLoop: the cursor stops at the end of the data.
ReadLoop_clamped(binary_data, pos, n, w, kind) ==
    Bind(Tuple([k \in 1..n |->
             ReadOne(Slice(binary_data, pos + (k - 1) * w, w), kind)]),
         LAMBDA vals :
            IF \E k \in 1..n : Raised(vals[k])
            THEN vals[CHOOSE k \in 1..n :
                          Raised(vals[k]) /\ \A h \in 1..(k - 1) : ~Raised(vals[h])]
            ELSE [pos |-> IF pos + n * w > Len(binary_data)
                          THEN Len(binary_data) ELSE pos + n * w,
                  val |-> vals])

\* The parse loops of one field: n reads of w bytes from cursor pos, in
\* loop order.  Every read is followed by pos += w, so read k is at
\* pos + (k - 1) * w.  The result is the values read (in loop order) and
\* the cursor the loops leave, or the exception of the first read that
\* raised.
ReadLoop(binary_data, pos, n, w, kind) ==
    Bind(Tuple([k \in 1..n |->
             ReadOne(Slice(binary_data, pos + (k - 1) * w, w), kind)]),
         LAMBDA vals :
            IF \E k \in 1..n : Raised(vals[k])
            THEN vals[CHOOSE k \in 1..n :
                          Raised(vals[k]) /\ \A h \in 1..(k - 1) : ~Raised(vals[h])]
            ELSE [pos |-> pos + n * w, val |-> vals])

\* the entry of a timestamp list
tt2000_entry(c, v) ==
    [cycle |-> c, timestamp_ms |-> v.timestamp_ms,
     iso_format |-> v.iso_format]

\* parse_bitstring: electrode_names
electrode_names == <<"upper", "middle", "lower">>

\* parse_bitstring, the loops of field k (1 to 8, in the order of the
\* code): the number of reads, taken from self when the loops run, the
\* bytes of a read and the kind of the element
field_loop(k) ==
    IF k = 1 THEN [n |-> self.num_cycles, w |-> 8, kind |-> "tt2000"]
    ELSE IF k \in {2, 3}
    THEN [n |-> self.num_incident * self.num_azimuthal * self.num_energy
                * self.num_cycles, w |-> 2, kind |-> "uint"]
    ELSE IF k = 4
    THEN [n |-> self.num_energy * self.num_cycles, w |-> 4, kind |-> "float"]
    ELSE IF k = 5
    THEN [n |-> self.num_electrode * self.num_energy * self.num_incident
                * self.num_cycles, w |-> 4, kind |-> "float"]
    ELSE IF k = 6 THEN [n |-> self.num_cycles, w |-> 8, kind |-> "tt2000"]
    ELSE IF k = 7 THEN [n |-> self.num_cycles, w |-> 4, kind |-> "float"]
    ELSE [n |-> self.num_energy * self.num_azimuthal * self.num_incident
                * self.num_cycles, w |-> 1, kind |-> "uint"]

\* parse_bitstring, the loops of field k run from the locals st (the
\* cursor pos and the values read so far): the locals afterwards, or the
\* exception
read_field(binary_data, k, st) ==
    Bind(field_loop(k), LAMBDA loop :
    Bind(ReadLoop(binary_data, st.pos, loop.n, loop.w, loop.kind), LAMBDA r :
        IF Raised(r) THEN r
        ELSE [pos |-> r.pos, vals |-> Append(st.vals, r.val)]))

\* parse_bitstring, the loops of the first k fields, from "pos = 0"
RECURSIVE read_fields(_, _)
read_fields(binary_data, k) ==
    IF k = 0 THEN [pos |-> 0, vals |-> <<>>]
    ELSE Bind(read_fields(binary_data, k - 1), LAMBDA st :
            IF Raised(st) THEN st ELSE read_field(binary_data, k, st))

\* parse_bitstring, the result dictionary: the global attributes made on
\* the given day, and the entries made of the values of the eight fields
result_of(vals, day) ==
    [
    global_attributes |->
        [Logical_file_id |-> <<"AESA_L1", day, "v01">>,
         Generation_date |-> day],
    epochs |->
        [c \in 1..self.num_cycles |-> tt2000_entry(c - 1, vals[1][c])],
    electron_counts |->
        Flatten([i \in 1..self.num_incident |->
          Flatten([a \in 1..self.num_azimuthal |->
            Flatten([e \in 1..self.num_energy |->
              [c \in 1..self.num_cycles |->
                [incident_idx |-> i - 1, azimuthal_idx |-> a - 1,
                 energy_idx |-> e - 1, cycle |-> c - 1,
                 count |-> vals[2][1 + RowMajor4(<<i - 1, a - 1, e - 1, c - 1>>,
                               self.num_azimuthal, self.num_energy,
                               self.num_cycles)]]]])])]),
    bg_counts |->
        Flatten([i \in 1..self.num_incident |->
          Flatten([a \in 1..self.num_azimuthal |->
            Flatten([e \in 1..self.num_energy |->
              [c \in 1..self.num_cycles |->
                [incident_idx |-> i - 1, azimuthal_idx |-> a - 1,
                 energy_idx |-> e - 1, cycle |-> c - 1,
                 count |-> vals[3][1 + RowMajor4(<<i - 1, a - 1, e - 1, c - 1>>,
                               self.num_azimuthal, self.num_energy,
                               self.num_cycles)]]]])])]),
    measure_energy |->
        Flatten([e \in 1..self.num_energy |->
          [c \in 1..self.num_cycles |->
            [energy_idx |-> e - 1, cycle |-> c - 1,
             energy_value |-> vals[4][(e - 1) * self.num_cycles + c]]]]),
    output_hv |->
        Flatten([el \in 1..self.num_electrode |->
          Flatten([e \in 1..self.num_energy |->
            Flatten([i \in 1..self.num_incident |->
              [c \in 1..self.num_cycles |->
                [electrode |-> electrode_names[el],
                 electrode_idx |-> el - 1, energy_idx |-> e - 1,
                 incident_idx |-> i - 1, cycle |-> c - 1,
                 voltage |-> vals[5][1 + RowMajor4(<<el - 1, e - 1, i - 1, c - 1>>,
                               self.num_energy, self.num_incident,
                               self.num_cycles)]]]])])]),
    datataking_time_start |->
        [c \in 1..self.num_cycles |-> tt2000_entry(c - 1, vals[6][c])],
    data_time_duration |->
        [c \in 1..self.num_cycles |->
            [cycle |-> c - 1, duration_seconds |-> vals[7][c]]],
    data_quality |->
        Flatten([e \in 1..self.num_energy |->
          Flatten([a \in 1..self.num_azimuthal |->
            Flatten([i \in 1..self.num_incident |->
              [c \in 1..self.num_cycles |->
                [energy_idx |-> e - 1, azimuthal_idx |-> a - 1,
                 incident_idx |-> i - 1, cycle |-> c - 1,
                 quality |-> vals[8][1 + RowMajor4(<<e - 1, a - 1, i - 1, c - 1>>,
                               self.num_azimuthal, self.num_incident,
                               self.num_cycles)]]]])])])]

\* BitStringParser.parse_bitstring with its local cursor: [result, pos]
\* when it returns, the exception when it raises
parse_bitstring_run(hex_string) ==
    Bind(fromhex(hex_string), LAMBDA binary_data :
    IF Raised(binary_data) THEN binary_data ELSE
    Bind(read_fields(binary_data.bytes, 8), LAMBDA st :
    IF Raised(st) THEN st
    ELSE [pos |-> st.pos, result |-> result_of(st.vals, today)]))

\* BitStringParser.parse_bitstring(hex_string): what the caller gets
parse_bitstring(hex_string) ==
    Bind(parse_bitstring_run(hex_string), LAMBDA run :
        IF Raised(run) THEN run ELSE run.result)

(***************************************************************************)
(* ContainerFormat: the text file of generate_multiple_bitstrings and the  *)
(* line scan of parse_multiple_bitstrings.  A text is a sequence of        *)
(* one-character strings.                                                  *)
(***************************************************************************)
DecDigits == <<"0", "1", "2", "3", "4", "5", "6", "7", "8", "9">>

IsDigit(ch) == \E v \in 1..10 : DecDigits[v] = ch

DigitValue(ch) == (CHOOSE v \in 1..10 : DecDigits[v] = ch) - 1

\* str(n) of a non-negative int, as the f-string formats it
RECURSIVE str(_)
str(n) ==
    IF n < 10 THEN <<DecDigits[n + 1]>>
    ELSE Append(str(n \div 10), DecDigits[(n % 10) + 1])

\* str.strip(): without the white space at both ends
strip(s) ==
    IF \A i \in 1..Len(s) : IsSpace(s[i]) THEN <<>>
    ELSE SubSeq(s,
                CHOOSE i \in 1..Len(s) :
                    ~IsSpace(s[i]) /\ \A j \in 1..(i - 1) : IsSpace(s[j]),
                CHOOSE i \in 1..Len(s) :
                    ~IsSpace(s[i]) /\ \A j \in (i + 1)..Len(s) : IsSpace(s[j]))

\* str.startswith(prefix)
startswith(s, prefix) ==
    Len(s) >= Len(prefix) /\ SubSeq(s, 1, Len(prefix)) = prefix

\* the position where the word that starts at position i ends
WordEnd(s, i) ==
    CHOOSE e \in i..Len(s) :
        /\ \A j \in i..e : ~IsSpace(s[j])
        /\ e = Len(s) \/ IsSpace(s[e + 1])

\* str.split(): the words between runs of white space
split(s) ==
    Bind({i \in 1..Len(s) : ~IsSpace(s[i]) /\ (i = 1 \/ IsSpace(s[i - 1]))},
         LAMBDA starts :
            Tuple([k \in 1..Cardinality(starts) |->
                Bind(CHOOSE i \in starts :
                         Cardinality({j \in starts : j < i}) = k - 1,
                     LAMBDA i : SubSeq(s, i, WordEnd(s, i)))]))

\* str.replace(old, new) for a one-character old
replace(s, old, new) ==
    Flatten([i \in 1..Len(s) |-> IF s[i] = old THEN new ELSE <<s[i]>>])

\* the value of a run of decimal digits
RECURSIVE DecValue(_, _)
DecValue(digits, n) ==
    IF n = 0 THEN <<>>
    ELSE CHOOSE v \in {BAdd(BMulSmall(w, 10), BFromNat(DigitValue(digits[n]))) :
                           w \in {DecValue(digits, n - 1)}} : TRUE

\* digits, single underscores allowed between two digits
IsDecLiteral(b) ==
    /\ Len(b) > 0
    /\ \A i \in 1..Len(b) : IsDigit(b[i]) \/ b[i] = "_"
    /\ b[1] # "_" /\ b[Len(b)] # "_"
    /\ \A i \in 1..(Len(b) - 1) : ~(b[i] = "_" /\ b[i + 1] = "_")

\* int(s) of a string: white space around, an optional sign, a decimal
\* literal; anything else raises ValueError
int(s) ==
    Bind(strip(s), LAMBDA t :
    Bind(Len(t) > 0 /\ t[1] \in {"+", "-"}, LAMBDA signed :
    Bind(IF signed THEN SubSeq(t, 2, Len(t)) ELSE t, LAMBDA b :
        IF ~IsDecLiteral(b) THEN [err |-> "ValueError"]
        ELSE Bind(SelectSeq(b, IsDigit), LAMBDA digits :
             Bind(DecValue(digits, Len(digits)), LAMBDA v :
                IF signed /\ t[1] = "-" /\ v # <<>> THEN PyNeg(v)
                ELSE PyInt(v))))))

\* the literal the scan looks for at the start of a line
Bitstring == <<"B", "i", "t", "s", "t", "r", "i", "n", "g">>

\* A faulty variant of header_index: a header whose index cannot be read
\* opens an entry with index 0.
header_index_lenient(line) ==
    Bind(split(line), LAMBDA words :
        IF Len(words) < 2 THEN PyInt(<<>>)
        ELSE Bind(int(replace(words[2], ":", <<>>)), LAMBDA v :
                 IF Raised(v) THEN PyInt(<<>>) ELSE v))

\* A faulty variant of header_index: the index is read from the last word
\* of the header line.
header_index_last_word(line) ==
    Bind(split(line), LAMBDA words :
        IF Len(words) < 2 THEN [err |-> "IndexError"]
        ELSE int(replace(words[Len(words)], ":", <<>>)))

\* parse_multiple_bitstrings, the try block of a header line:
\* int(line.split()[1].replace(":", ""))
header_index(line) ==
    Bind(split(line), LAMBDA words :
        IF Len(words) < 2 THEN [err |-> "IndexError"]
        ELSE int(replace(words[2], ":", <<>>)))

\* the lines a text file iterates over: each ends with its newline, but
\* the last one when the text does not end with one
readlines(text) ==
    Bind({i \in 1..Len(text) : text[i] = "\n"}, LAMBDA nl :
    Bind([k \in 1..Cardinality(nl) |->
             CHOOSE i \in nl : Cardinality({j \in nl : j <= i}) = k] \o <<>>,
         LAMBDA at :
            Tuple([k \in 1..(Len(at) + (IF Len(text) > 0 /\ text[Len(text)] # "\n"
                                        THEN 1 ELSE 0)) |->
                SubSeq(text, IF k = 1 THEN 1 ELSE at[k - 1] + 1,
                       IF k <= Len(at) THEN at[k] ELSE Len(text))])))

\* fake_tm_generator.generate_l1_cdf_hex_bitstring(), with data the record
\* its generators draw
generate_l1_cdf_hex_bitstring(data) == create_hex_bitstring_from_data(data)

\* fake_tm_generator.generate_multiple_bitstrings(count, output_file), with
\* hex_strings[k] what generate_l1_cdf_hex_bitstring returns or raises in
\* round k: what the file holds afterwards and what the call returns or
\* raises.  The header of round k is written once its record is encoded.
generate_multiple_bitstrings(count, hex_strings) ==
    Bind(IF \E k \in 1..count : Raised(hex_strings[k])
         THEN CHOOSE k \in 1..count :
                  Raised(hex_strings[k])
                  /\ \A h \in 1..(k - 1) : ~Raised(hex_strings[h])
         ELSE count + 1, LAMBDA stop :
        [text |-> Flatten([k \in 1..(stop - 1) |->
                      Bitstring \o <<" ">> \o str(k) \o <<":", "\n">>
                      \o hex_strings[k].str \o <<"\n", "\n">>]),
         ret  |-> IF stop <= count THEN hex_strings[stop] ELSE PyNone])

\* fake_tm_generator.generate_l1_cdf_hex_bitstring_setting1() and
\* ..._setting2(), with data the record their generators draw
generate_l1_cdf_hex_bitstring_setting1(data) ==
    create_hex_bitstring_from_data(data)

generate_l1_cdf_hex_bitstring_setting2(data) ==
    create_hex_bitstring_from_data(data)

\* fake_tm_generator.generate_multiple_bitstrings_with_settings(
\* count_per_setting, output_file), with hex_strings the results of the
\* 2 * count_per_setting rounds (setting 1 first): the header of a round
\* carries bitstring_counter and the setting of its loop
generate_multiple_bitstrings_with_settings(count_per_setting, hex_strings) ==
    Bind(IF \E k \in 1..(2 * count_per_setting) : Raised(hex_strings[k])
         THEN CHOOSE k \in 1..(2 * count_per_setting) :
                  Raised(hex_strings[k])
                  /\ \A h \in 1..(k - 1) : ~Raised(hex_strings[h])
         ELSE 2 * count_per_setting + 1, LAMBDA stop :
        [text |-> Flatten([k \in 1..(stop - 1) |->
                      Bitstring \o <<" ">> \o str(k)
                      \o <<" ", "(", "S", "e", "t", "t", "i", "n", "g", " ">>
                      \o (IF k <= count_per_setting THEN <<"1">> ELSE <<"2">>)
                      \o <<")", ":", "\n">>
                      \o hex_strings[k].str \o <<"\n", "\n">>]),
         ret  |-> IF stop <= 2 * count_per_setting THEN hex_strings[stop]
                  ELSE PyNone])

\* A faulty variant of accumulate: the lines of a payload are joined with
\* a space between them.
accumulate_spaced(idx, bitstring, line) ==
    IF line # <<>> /\ ~IsNone(idx)
    THEN (IF bitstring = <<>> THEN line ELSE bitstring \o <<" ">> \o line)
    ELSE bitstring

\* A faulty variant of accumulate: a line is added to the payload whether
\* or not an entry is open.
accumulate_orphans(idx, bitstring, line) ==
    IF line # <<>> THEN bitstring \o line ELSE bitstring

\* parse_multiple_bitstrings: "elif line and current_index is not None:
\* current_bitstring += line", for a stripped line that is no header
accumulate(idx, bitstring, line) ==
    IF line # <<>> /\ ~IsNone(idx) THEN bitstring \o line ELSE bitstring

\* A faulty variant of flush: the new entry is put in front of the
\* results.
flush_in_front(idx, bitstring, res, hist) ==
    IF bitstring # <<>> /\ ~IsNone(idx)
    THEN Bind(parse_bitstring(bitstring), LAMBDA result :
            IF Raised(result)
            THEN [err |-> result.err,
                  parsed |-> Append(hist, [index |-> idx, payload |-> bitstring])]
            ELSE [results |-> <<[bitstring_index |-> idx, data |-> result]>> \o res,
                  parsed |-> Append(hist, [index |-> idx, payload |-> bitstring])])
    ELSE [results |-> res, parsed |-> hist]

\* A faulty variant of flush: the open entry is dropped.
flush_dropping(idx, bitstring, res, hist) == [results |-> res, parsed |-> hist]

\* A faulty variant of flush: an open entry without a payload is returned
\* too, with no data.
flush_keeping_empty(idx, bitstring, res, hist) ==
    IF ~IsNone(idx) /\ bitstring = <<>>
    THEN [results |-> Append(res, [bitstring_index |-> idx, data |-> PyNone]),
          parsed |-> Append(hist, [index |-> idx, payload |-> bitstring])]
    ELSE IF bitstring # <<>> /\ ~IsNone(idx)
    THEN Bind(parse_bitstring(bitstring), LAMBDA result :
            IF Raised(result)
            THEN [err |-> result.err,
                  parsed |-> Append(hist, [index |-> idx, payload |-> bitstring])]
            ELSE [results |-> Append(res, [bitstring_index |-> idx,
                                           data |-> result]),
                  parsed |-> Append(hist, [index |-> idx, payload |-> bitstring])])
    ELSE [results |-> res, parsed |-> hist]

\* parse_multiple_bitstrings: "if current_bitstring and current_index is
\* not None", the call of parse_bitstring and the append to results;
\* parsed keeps what parse_bitstring was called with
flush(idx, bitstring, res, hist) ==
    IF bitstring # <<>> /\ ~IsNone(idx)
    THEN Bind(parse_bitstring(bitstring), LAMBDA result :
            IF Raised(result)
            THEN [err |-> result.err,
                  parsed |-> Append(hist, [index |-> idx, payload |-> bitstring])]
            ELSE [results |-> Append(res, [bitstring_index |-> idx,
                                           data |-> result]),
                  parsed |-> Append(hist, [index |-> idx, payload |-> bitstring])])
    ELSE [results |-> res, parsed |-> hist]

(***************************************************************************)
(* The records the model encodes.                                          *)
(***************************************************************************)
Range(n) == 0..(n - 1)

CountIdx == Range(num_incident) \X Range(num_azimuthal) \X Range(num_energy)
            \X Range(num_cycles)

EnergyIdx == Range(num_energy) \X Range(num_cycles)

HvIdx == Range(num_electrode) \X Range(num_energy) \X Range(num_incident)
         \X Range(num_cycles)

QualityIdx == Range(num_energy) \X Range(num_azimuthal) \X Range(num_incident)
              \X Range(num_cycles)

FirstIdx4 == <<0, 0, 0, 0>>

LastCountIdx ==
    <<num_incident - 1, num_azimuthal - 1, num_energy - 1, num_cycles - 1>>

LastHvIdx ==
    <<num_electrode - 1, num_energy - 1, num_incident - 1, num_cycles - 1>>

LastQualityIdx ==
    <<num_energy - 1, num_azimuthal - 1, num_incident - 1, num_cycles - 1>>

Zero == PyInt(<<>>)

FZero == PyFloat(FALSE, <<>>, 0)

\* an instant, in UTC seconds and microseconds, as the host's datetime
Instant(t, us) == LocalDatetime(t, us, tz)

\* every element zero, every timestamp 1970-01-01T00:00:00Z
ZeroRecord ==
    [epochs          |-> [c \in 1..num_cycles |-> Instant(<<>>, 0)],
     electron_counts |-> [idx \in CountIdx |-> Zero],
     bg_counts       |-> [idx \in CountIdx |-> Zero],
     measure_energy  |-> [idx \in EnergyIdx |-> FZero],
     output_hv       |-> [idx \in HvIdx |-> FZero],
     start_times     |-> [c \in 1..num_cycles |-> Instant(<<>>, 0)],
     durations       |-> [c \in 1..num_cycles |-> FZero],
     data_quality    |-> [idx \in QualityIdx |-> Zero]]

\* 2023-11-14T22:13:20Z, in seconds
T2023 == <<0, 241, 83, 101>>

\* every element different from its neighbours: element values count up
\* along each field, the epochs are 80 s apart
RampRecord ==
    [epochs          |-> [c \in 1..num_cycles |->
                             Instant(BAdd(T2023, BFromNat(80 * (c - 1))), 250000)],
     electron_counts |-> [idx \in CountIdx |->
                             PyInt(BFromNat(100 + RowMajor4(idx, num_azimuthal,
                                                num_energy, num_cycles)))],
     bg_counts       |-> [idx \in CountIdx |->
                             PyInt(BFromNat(1 + RowMajor4(idx, num_azimuthal,
                                                num_energy, num_cycles)))],
     measure_energy  |-> [idx \in EnergyIdx |->
                             PyFloat(FALSE, BFromNat(100 * (idx[1] + 1)), 0)],
     output_hv       |-> [idx \in HvIdx |->
                             PyFloat(FALSE, BFromNat(1 + RowMajor4(idx, num_energy,
                                                num_incident, num_cycles)), -2)],
     start_times     |-> [c \in 1..num_cycles |->
                             Instant(BAdd(T2023, BFromNat(80 * (c - 1))), 250000)],
     durations       |-> [c \in 1..num_cycles |->
                             PyFloat(FALSE, BFromNat(280 + c), -2)],
     data_quality    |-> [idx \in QualityIdx |->
                             PyInt(BFromNat(1 + RowMajor4(idx, num_azimuthal,
                                                num_incident, num_cycles)))]]

\* the scenario of the round-trip test: all zero except
\* electron_counts[0,0,0,0] = 999 and measure_energy[0,0] = 100.0
ScenarioRecord ==
    [ZeroRecord EXCEPT !.electron_counts[FirstIdx4] = PyInt(BFromNat(999)),
                       !.measure_energy[<<0, 0>>] = PyFloat(FALSE, <<100>>, 0)]

IntValues == {PyInt(<<1>>), PyInt(<<255>>), PyInt(<<0, 1>>), PyInt(<<255, 255>>),
              PyInt(<<0, 0, 1>>), PyNeg(<<1>>)}

\* 72.5, -2.5, float32(0.1), the largest float32, 0.1, 1e39, inf
FloatValues == {PyFloat(FALSE, <<145>>, -1), PyFloat(TRUE, <<5>>, -1),
                PyFloat(FALSE, <<205, 204, 204>>, -27),
                PyFloat(FALSE, <<255, 255, 255>>, 104),
                PyFloat(FALSE, <<154, 153, 153, 153, 153, 153, 25>>, -56),
                PyFloat(FALSE, <<29, 74, 156, 244, 135, 130, 23>>, 77),
                PyInf(FALSE)}

\* 1970-01-01T00:00:01.0015Z (1001 ms), 1970-01-01T00:00:01.118Z,
\* 2023-11-14T22:13:20.123456Z, 1970-01-01T00:00:00.000999Z
Instants == {Instant(<<1>>, 1500), Instant(<<1>>, 118000),
             Instant(T2023, 123456), Instant(<<>>, 999)}

\* one element of one field changed
OneChange ==
    {[ZeroRecord EXCEPT !.electron_counts[idx] = v] :
        idx \in {FirstIdx4, LastCountIdx}, v \in IntValues}
    \cup {[ZeroRecord EXCEPT !.bg_counts[LastCountIdx] = v] : v \in IntValues}
    \cup {[ZeroRecord EXCEPT !.data_quality[idx] = v] :
        idx \in {FirstIdx4, LastQualityIdx}, v \in IntValues}
    \cup {[ZeroRecord EXCEPT !.measure_energy[idx] = v] :
        idx \in {<<0, 0>>, <<num_energy - 1, num_cycles - 1>>}, v \in FloatValues}
    \cup {[ZeroRecord EXCEPT !.output_hv[LastHvIdx] = v] : v \in FloatValues}
    \cup {[ZeroRecord EXCEPT !.durations[c] = v] :
        c \in {1, num_cycles}, v \in FloatValues}
    \cup {[ZeroRecord EXCEPT !.epochs[c] = t] : c \in {1, num_cycles}, t \in Instants}
    \cup {[ZeroRecord EXCEPT !.start_times[c] = t] :
        c \in {1, num_cycles}, t \in Instants}

\* a sequence without its last element, and with its last element twice
Shorter(q) == SubSeq(q, 1, Len(q) - 1)

Longer(q) == Append(q, q[Len(q)])

\* records whose sequences or arrays have another shape than the schema's
Misshapen ==
    {[RampRecord EXCEPT !.epochs = Shorter(@)],
     [RampRecord EXCEPT !.epochs = Longer(@)],
     [RampRecord EXCEPT !.start_times = Shorter(@)],
     [RampRecord EXCEPT !.durations = Longer(@)],
     [RampRecord EXCEPT !.durations = Shorter(@), !.epochs = Longer(@)],
     [RampRecord EXCEPT !.data_quality =
         [idx \in QualityIdx \ {LastQualityIdx} |-> Zero]],
     [RampRecord EXCEPT !.electron_counts =
         [idx \in Range(num_incident + 1) \X Range(num_azimuthal)
                  \X Range(num_energy) \X Range(num_cycles) |-> PyInt(<<7>>)]]}

Records == {ZeroRecord, RampRecord, ScenarioRecord} \cup OneChange \cup Misshapen

(***************************************************************************)
(* The state machine: one process that calls the codec, one call after     *)
(* another (the program is single-threaded).  call records the last call:  *)
(* its operation, its argument and what it returned or raised.             *)
(***************************************************************************)
\* UTC and UTC+8
TimeZones == {0, 28800}

MaxDay == 1

\* BitStringParser.__init__
BitStringParser_init ==
    [num_energy |-> num_energy, num_azimuthal |-> num_azimuthal,
     num_incident |-> num_incident, num_cycles |-> num_cycles,
     num_electrode |-> num_electrode]

Init ==
    /\ tz \in TimeZones
    /\ today = 0
    /\ self = BitStringParser_init
    /\ call = [op |-> "init"]
    /\ file = PyNone
    /\ lines = <<>>
    /\ lineno = 0
    /\ current_index = PyNone
    /\ current_bitstring = <<>>
    /\ results = <<>>
    /\ parsed = <<>>
    /\ warnings = <<>>
    /\ scan_pc = "idle"
    /\ workers = <<>>

scan_vars == <<lines, lineno, current_index, current_bitstring, results,
               parsed, warnings, scan_pc>>

\* the decodings that are run once more: of the whole encoding of one of
\* the three records
Redecoded ==
    /\ call.cut = 0
    /\ call.record \in {ZeroRecord, RampRecord, ScenarioRecord}

\* the host's clock passes midnight after an encoding or a decoding, before
\* the next call (there is a next call after a decoding where Redecoded)
Tick ==
    /\ scan_pc = "idle"
    /\ call.op \in {"create_hex_bitstring_from_data", "parse_bitstring"}
    /\ call.op = "parse_bitstring" => Redecoded
    /\ today < MaxDay
    /\ today' = today + 1
    /\ UNCHANGED <<tz, workers, self, call, file, scan_vars>>

\* 256^n - 1 and 256^n
MaxUint(n) == [k \in 1..n |-> 255]

Pow256(n) == Zeros(n) \o <<1>>

PackWidths == {0, 1, 2, 3, 4, 5, 8, 9}

PackValues ==
    {Zero, PyInt(<<1>>), PyNeg(<<1>>), PyNeg(<<0, 1>>), PyInt(<<231, 3>>)}
    \cup {PyInt(MaxUint(n)) : n \in {1, 2, 4, 8}}
    \cup {PyInt(Pow256(n)) : n \in {1, 2, 4, 8}}
    \cup {PyInt(BAdd(Pow256(n), <<1>>)) : n \in {1, 2, 4, 8}}
    \cup {PyInt(BSub(MaxUint(n), <<1>>)) : n \in {1, 2, 4, 8}}

\* value_to_bytes(value, num_bytes, is_float)
Pack ==
    /\ scan_pc = "idle"
    /\ call.op = "init"
    /\ \E num_bytes \in PackWidths, is_float \in BOOLEAN :
       \E value \in IF is_float THEN FloatValues \cup {FZero} ELSE PackValues :
          call' = [op  |-> "value_to_bytes",
                   arg |-> [value |-> value, num_bytes |-> num_bytes,
                            is_float |-> is_float],
                   ret |-> value_to_bytes(value, num_bytes, is_float)]
    /\ UNCHANGED <<tz, workers, today, self, file, scan_vars>>

\* bytes_to_value(byte_data, is_float) of the bytes just packed, of their
\* first three and of none of them
Unpack ==
    /\ scan_pc = "idle"
    /\ call.op = "value_to_bytes"
    /\ IsBytes(call.ret)
    /\ \E is_float \in BOOLEAN :
       \E byte_data \in {call.ret.bytes, Slice(call.ret.bytes, 0, 3), <<>>} :
          call' = [op  |-> "bytes_to_value",
                   arg |-> [byte_data |-> byte_data, is_float |-> is_float],
                   ret |-> bytes_to_value(byte_data, is_float),
                   packed |-> call.arg]
    /\ UNCHANGED <<tz, workers, today, self, file, scan_vars>>

\* 2^53 + 1 ms, and the last millisecond of 9999-12-30 (UTC)
MsValues ==
    {<<>>, <<1>>, <<231, 3>>, <<232, 3>>, <<233, 3>>, <<235, 3>>, <<94, 4>>,
     <<0, 104, 229, 207, 139, 1>>, <<123, 104, 229, 207, 139, 1>>,
     <<1, 0, 0, 0, 0, 0, 32>>, <<255, 131, 121, 204, 114, 230>>,
     MaxUint(8)}

\* epoch_to_bytes(epoch)
EpochToBytes ==
    /\ scan_pc = "idle"
    /\ call.op = "init"
    /\ \E epoch \in Instants \cup {Instant(<<>>, 0), Instant(T2023, 999999)} :
          call' = [op  |-> "epoch_to_bytes", arg |-> epoch,
                   ret |-> epoch_to_bytes(epoch)]
    /\ UNCHANGED <<tz, workers, today, self, file, scan_vars>>

\* the body of the epoch loop of parse_bitstring on 8 bytes: bytes_to_tt2000
\* and the entry built from it; either the bytes just produced by
\* epoch_to_bytes or any 64-bit counter
ParseEpoch ==
    /\ scan_pc = "idle"
    /\ call.op \in {"init", "epoch_to_bytes"}
    /\ \E byte_data \in {BigEndian(m, 8) : m \in MsValues}
                        \cup (IF call.op = "epoch_to_bytes" /\ IsBytes(call.ret)
                              THEN {call.ret.bytes} ELSE {}) :
          call' = [op  |-> "bytes_to_tt2000", arg |-> byte_data,
                   ret |-> Bind(tt2000_read(byte_data), LAMBDA v :
                               IF Raised(v) THEN v ELSE tt2000_entry(0, v))]
    /\ UNCHANGED <<tz, workers, today, self, file, scan_vars>>

\* create_hex_bitstring_from_data(record): of any record at first, and
\* afterwards of the record last encoded, once more (again tells that the
\* call before was an encoding of the same record; a third encoding is the
\* second over again)
Encode ==
    /\ scan_pc = "idle"
    /\ call.op \in {"init", "create_hex_bitstring_from_data"}
    /\ call.op = "create_hex_bitstring_from_data" => ~call.again
    /\ \E rec \in IF call.op = "init" THEN Records ELSE {call.arg} :
          call' = [op  |-> "create_hex_bitstring_from_data", arg |-> rec,
                   ret |-> create_hex_bitstring_from_data(rec),
                   again |-> call.op = "create_hex_bitstring_from_data"]
    /\ UNCHANGED <<tz, workers, today, self, file, scan_vars>>

\* a string without its last n characters
DropLast(s, n) == SubSeq(s, 1, Len(s) - n)

\* The transfers of an encoded record the decoder is run on: cut < 0 drops
\* -cut hex characters from the end, cut > 0 appends cut characters.
Transfer(s, cut) ==
    IF cut <= 0 THEN DropLast(s, 0 - cut)
    ELSE s \o [k \in 1..cut |-> IF k % 2 = 1 THEN "f" ELSE "e"]

QualityChars == 2 * num_energy * num_azimuthal * num_incident * num_cycles

Cuts == {0, -1, -2, -4, 0 - QualityChars, 0 - QualityChars - 2,
         0 - QualityChars - 8 * num_cycles - 2, 1, 2, 4}

\* the records whose encodings are shortened and lengthened
CutRecords == {ZeroRecord, RampRecord, ScenarioRecord}

\* parse_bitstring(hex_string) on a transfer of the string just encoded
\* (by the first encoding of its record)
Decode ==
    /\ scan_pc = "idle"
    /\ call.op = "create_hex_bitstring_from_data"
    /\ ~call.again
    /\ ~Raised(call.ret)
    /\ \E cut \in Cuts :
          /\ cut # 0 => call.arg \in CutRecords
          /\ 0 - cut <= Len(call.ret.str)
          /\ call' =
                Bind(parse_bitstring_run(Transfer(call.ret.str, cut)),
                     LAMBDA run :
                        [op  |-> "parse_bitstring",
                         arg |-> Transfer(call.ret.str, cut),
                         ret |-> IF Raised(run) THEN run ELSE run.result,
                         pos |-> IF Raised(run) THEN -1 ELSE run.pos,
                         record |-> call.arg, encoded |-> call.ret.str,
                         cut |-> cut])
    /\ UNCHANGED <<tz, workers, today, self, file, scan_vars>>

\* A faulty variant of DecodeAgain: the decoder leaves the parser with one
\* cycle.
DecodeAgain_resizing ==
    /\ scan_pc = "idle"
    /\ call.op = "parse_bitstring"
    /\ Redecoded
    /\ call' = [call EXCEPT !.ret = parse_bitstring(call.arg)]
    /\ self' = [self EXCEPT !.num_cycles = 1]
    /\ UNCHANGED <<tz, workers, today, file, scan_vars>>

\* parse_bitstring(hex_string) once more, on the whole string last decoded
DecodeAgain ==
    /\ scan_pc = "idle"
    /\ call.op = "parse_bitstring"
    /\ Redecoded
    /\ call' =
          Bind(parse_bitstring_run(call.arg), LAMBDA run :
              [op  |-> "parse_bitstring",
               arg |-> call.arg,
               ret |-> IF Raised(run) THEN run ELSE run.result,
               pos |-> IF Raised(run) THEN -1 ELSE run.pos,
               record |-> call.record, encoded |-> call.encoded,
               cut |-> call.cut])
    /\ UNCHANGED <<tz, workers, today, self, file, scan_vars>>

MaxCount == 2

\* records the generators can draw; the last has an epoch of 1001 ms
WriterRecords ==
    {ScenarioRecord, RampRecord,
     [ZeroRecord EXCEPT !.epochs[1] = Instant(<<1>>, 1500)]}

\* generate_multiple_bitstrings(count, output_file)
Write ==
    /\ scan_pc = "idle"
    /\ call.op = "init"
    /\ \E count \in 0..MaxCount :
       \E records \in [1..count -> WriterRecords] :
       \E hex_strings \in {[k \in 1..count |->
                               generate_l1_cdf_hex_bitstring(records[k])]} :
       \E out \in {generate_multiple_bitstrings(count, hex_strings)} :
          /\ file' = [text |-> out.text, drawn |-> records]
          /\ call' = [op  |-> "generate_multiple_bitstrings",
                      arg |-> [count |-> count, records |-> records],
                      ret |-> out.ret]
    /\ UNCHANGED <<tz, workers, today, self, scan_vars>>

MaxPerSetting == 1

\* records the generators of setting 1 and of setting 2 can draw
Setting1Records == {ScenarioRecord}

Setting2Records == {RampRecord, ZeroRecord}

\* generate_multiple_bitstrings_with_settings(count_per_setting, output_file)
WriteSettings ==
    /\ scan_pc = "idle"
    /\ call.op = "init"
    /\ \E count_per_setting \in 0..MaxPerSetting :
       \E records1 \in [1..count_per_setting -> Setting1Records] :
       \E records2 \in [1..count_per_setting -> Setting2Records] :
       \E hex_strings \in
             {[k \in 1..count_per_setting |->
                  generate_l1_cdf_hex_bitstring_setting1(records1[k])]
              \o [k \in 1..count_per_setting |->
                  generate_l1_cdf_hex_bitstring_setting2(records2[k])]} :
       \E out \in {generate_multiple_bitstrings_with_settings(
                       count_per_setting, hex_strings)} :
          /\ file' = [text |-> out.text, drawn |-> records1 \o records2]
          /\ call' = [op  |-> "generate_multiple_bitstrings_with_settings",
                      arg |-> [count_per_setting |-> count_per_setting,
                               records |-> records1 \o records2],
                      ret |-> out.ret]
    /\ UNCHANGED <<tz, workers, today, self, scan_vars>>

\* the text of a sequence of lines, a newline after each
Text(ls) == Flatten([k \in 1..Len(ls) |-> ls[k] \o <<"\n">>])

\* a header line with the given words after the literal
Header(rest) == Bitstring \o rest

\* the two halves of a payload
FirstHalf(payload) == SubSeq(payload, 1, Len(payload) \div 2)

SecondHalf(payload) == SubSeq(payload, Len(payload) \div 2 + 1, Len(payload))

\* container texts that were not written by generate_multiple_bitstrings,
\* around a given payload and its two halves
TextsOf(Payload, First, Second) ==
    {Text(<<Header(<<" ", "1", ":">>), First, <<>>, Second>>),
     Text(<<Header(<<" ", "1", ":">>), Payload>>),
     DropLast(Text(<<Header(<<" ", "3", ":">>), First, Second>>), 1),
     Text(<<Header(<<" ", "1", ":", "2", ":">>), Payload>>),
     Text(<<Header(<<" ", ":", "3">>), Payload>>),
     Text(<<Header(<<>>), Payload, Header(<<" ", "2", ":">>), Payload>>),
     Text(<<Header(<<" ", "x", ":">>), Payload, <<>>,
            Header(<<" ", "2", ":">>), Payload>>),
     Text(<<<<" ", " ">> \o Header(<<"\t", "7", ":", " ", "e", "x", "t", "r", "a", " ">>),
            <<" ">> \o First \o <<" ", "\r">>, <<" ", "\t">>, Second>>),
     Text(<<Header(<<"X", " ", "4", ":">>), Payload>>),
     Text(<<Header(<<" ", "1", "_", "0">>), Payload>>),
     Text(<<Header(<<" ", "-", "1", ":">>), Payload>>),
     Text(<<Header(<<" ", "0", ":">>), Payload>>),
     Text(<<First, Header(<<" ", "3", ":">>), <<"a", "b">>,
            Header(<<" ", "4", ":">>), Payload>>),
     Text(<<Header(<<" ", "5", ":">>), <<>>, Header(<<" ", "6", ":">>), Payload>>),
     Text(<<Header(<<" ", "8", ":">>), Payload, Header(<<" ", "9", ":">>)>>),
     Text(<<Header(<<" ", "1", ":">>), Payload, Header(<<" ", "1", ":">>), Payload>>),
     Text(<<<<"b", "i", "t", "s", "t", "r", "i", "n", "g", " ", "1", ":">>, Payload>>),
     Text(<<Header(<<" ", "1", ":">>), Payload, Header(<<" ", "x", ":">>), Payload,
            Header(<<" ", "3", ":">>), Payload>>),
     Text(<<Header(<<" ", "9", ":">>), Payload, Header(<<" ", "2", ":">>), Payload,
            Header(<<" ", "9", ":">>), Payload>>),
     <<>>}

\* the stored texts carry the encoding of the scenario record
StoredTexts ==
    Bind(create_hex_bitstring_from_data(ScenarioRecord).str, LAMBDA payload :
        TextsOf(payload, FirstHalf(payload), SecondHalf(payload)))

\* a container text is put at input_file by other means
Store ==
    /\ scan_pc = "idle"
    /\ call.op = "init"
    /\ \E text \in StoredTexts :
          /\ file' = [text |-> text]
          /\ call' = [op |-> "store", arg |-> text]
    /\ UNCHANGED <<tz, workers, today, self, scan_vars>>

\* parse_multiple_bitstrings(input_file) up to the loop: FileNotFoundError
\* when there is no file, else the three locals and the open file
ScanOpen ==
    /\ scan_pc = "idle"
    /\ call.op \in {"init", "store", "generate_multiple_bitstrings",
                   "generate_multiple_bitstrings_with_settings"}
    /\ IF IsNone(file)
       THEN /\ call' = [op  |-> "parse_multiple_bitstrings", arg |-> file,
                        ret |-> [err |-> "FileNotFoundError"]]
            /\ UNCHANGED scan_vars
       ELSE /\ call' = [op |-> "parse_multiple_bitstrings", arg |-> file]
            /\ lines' = readlines(file.text)
            /\ lineno' = 0
            /\ results' = <<>>
            /\ current_bitstring' = <<>>
            /\ current_index' = PyNone
            /\ parsed' = <<>>
            /\ warnings' = <<>>
            /\ scan_pc' = "scan"
    /\ UNCHANGED <<tz, workers, today, self, file>>

\* parse_multiple_bitstrings, one round of "for line in f"
ScanLine ==
    /\ scan_pc = "scan"
    /\ lineno < Len(lines)
    /\ lineno' = lineno + 1
    /\ \E line \in {strip(lines[lineno + 1])} :
          IF startswith(line, Bitstring)
          THEN \E closed \in {flush(current_index, current_bitstring,
                                    results, parsed)} :
               \E index \in {header_index(line)} :
                  /\ parsed' = closed.parsed
                  /\ IF Raised(closed)
                     THEN /\ call' = [op |-> call.op, arg |-> call.arg,
                                      ret |-> [err |-> closed.err]]
                          /\ scan_pc' = "idle"
                          /\ UNCHANGED <<results, current_index,
                                         current_bitstring, warnings>>
                     ELSE /\ results' = closed.results
                          /\ current_index' =
                                IF Raised(index) THEN PyNone ELSE index
                          /\ current_bitstring' = <<>>
                          /\ warnings' = IF Raised(index)
                                         THEN Append(warnings, line)
                                         ELSE warnings
                          /\ UNCHANGED <<call, scan_pc>>
          ELSE /\ current_bitstring' =
                     accumulate(current_index, current_bitstring, line)
               /\ UNCHANGED <<call, scan_pc, results, current_index, parsed,
                              warnings>>
    /\ UNCHANGED <<tz, workers, today, self, file, lines>>

\* parse_multiple_bitstrings after the loop: the last bitstring is parsed
\* and the results are returned
ScanFinish ==
    /\ scan_pc = "scan"
    /\ lineno = Len(lines)
    /\ \E closed \in {flush(current_index, current_bitstring,
                            results, parsed)} :
          /\ parsed' = closed.parsed
          /\ results' = IF Raised(closed) THEN results ELSE closed.results
          /\ call' = [op |-> call.op, arg |-> call.arg,
                      ret |-> IF Raised(closed) THEN [err |-> closed.err]
                              ELSE [list |-> closed.results]]
    /\ scan_pc' = "idle"
    /\ UNCHANGED <<tz, workers, today, self, file, lines, lineno, current_index,
                   current_bitstring, warnings>>

\* save_as_json(data, output_file) of the list a scan returned, as main()
\* calls it: the data are read and written as JSON to a file of their own,
\* which the model does not keep; the call returns None
Export ==
    /\ scan_pc = "idle"
    /\ call.op = "parse_multiple_bitstrings"
    /\ "list" \in DOMAIN call.ret
    /\ call' = [op |-> "save_as_json", arg |-> call.ret.list, ret |-> PyNone]
    /\ UNCHANGED <<tz, workers, today, self, file, scan_vars>>

Next ==
    \/ Tick \/ Pack \/ Unpack \/ EpochToBytes \/ ParseEpoch \/ Encode \/ Decode
    \/ DecodeAgain
    \/ Write \/ WriteSettings \/ Store \/ ScanOpen \/ ScanLine \/ ScanFinish
    \/ Export

Spec == Init /\ [][Next]_vars

(***************************************************************************)
(* Several callers of one BitStringParser instance, running at once.  A    *)
(* call of parse_bitstring touches the instance only to read self.num_*    *)
(* at the head of its loops; binary_data, result and pos are locals of the *)
(* call.  create_hex_bitstring_from_data touches its byte_array only.      *)
(* A step is what a call does up to its next read of the instance.         *)
(***************************************************************************)
Workers == {"a", "b"}

\* the hex strings and the records the callers pass
WorkerRecords == {ScenarioRecord, RampRecord}

WorkerStrings == {create_hex_bitstring_from_data(rec).str : rec \in WorkerRecords}

\* A faulty variant of activation: the locals of every call live in one
\* place, as if they were fields of the parser instance.
activation_shared(w) == "a"

\* where the locals of the call of worker w live: every call has an
\* activation of its own
activation(w) == w

\* the locals of a call that is not running
NoFrame == [binary_data |-> <<>>, day |-> 0, st |-> [pos |-> 0, vals |-> <<>>]]

\* a worker between two calls
IdleWorker == [pc |-> "idle", op |-> "none", arg |-> PyNone, k |-> 0, ret |-> PyNone]

InitC ==
    /\ tz \in TimeZones
    /\ today = 0
    /\ self = BitStringParser_init
    /\ call = [op |-> "init"]
    /\ file = PyNone
    /\ lines = <<>>
    /\ lineno = 0
    /\ current_index = PyNone
    /\ current_bitstring = <<>>
    /\ results = <<>>
    /\ parsed = <<>>
    /\ warnings = <<>>
    /\ scan_pc = "idle"
    /\ workers = [calls  |-> [w \in Workers |-> IdleWorker],
                  locals |-> [w \in Workers |-> NoFrame]]

\* worker w calls parser.parse_bitstring(hex_string)
CallDecode(w) ==
    /\ workers.calls[w].pc = "idle"
    /\ \E hex_string \in WorkerStrings :
          workers' = [workers EXCEPT
              !.calls[w] = [pc |-> "begin", op |-> "parse_bitstring",
                            arg |-> hex_string, k |-> 1, ret |-> PyNone]]
    /\ UNCHANGED <<tz, today, self, call, file, scan_vars>>

\* parse_bitstring up to its first loop: binary_data, the result
\* dictionary with today's global attributes, pos = 0
DecodeBegin(w) ==
    /\ workers.calls[w].pc = "begin"
    /\ \E binary_data \in {fromhex(workers.calls[w].arg)} :
          workers' =
             IF Raised(binary_data)
             THEN [workers EXCEPT !.calls[w].pc = "done",
                                  !.calls[w].ret = binary_data]
             ELSE [workers EXCEPT
                      !.calls[w].pc = "field",
                      !.locals[activation(w)] =
                          [binary_data |-> binary_data.bytes, day |-> today,
                           st |-> [pos |-> 0, vals |-> <<>>]]]
    /\ UNCHANGED <<tz, today, self, call, file, scan_vars>>

\* parse_bitstring, the loops of the next field
DecodeField(w) ==
    /\ workers.calls[w].pc = "field"
    /\ \E frame \in {workers.locals[activation(w)]} :
       \E st \in {read_field(frame.binary_data, workers.calls[w].k, frame.st)} :
          workers' =
             IF Raised(st)
             THEN [workers EXCEPT !.calls[w].pc = "done", !.calls[w].ret = st,
                                  !.locals[activation(w)] = NoFrame]
             ELSE [workers EXCEPT
                      !.calls[w].pc = IF workers.calls[w].k = 8 THEN "return"
                                      ELSE "field",
                      !.calls[w].k = workers.calls[w].k + 1,
                      !.locals[activation(w)].st = st]
    /\ UNCHANGED <<tz, today, self, call, file, scan_vars>>

\* parse_bitstring: "return result"; the locals of the call are gone
DecodeReturn(w) ==
    /\ workers.calls[w].pc = "return"
    /\ \E frame \in {workers.locals[activation(w)]} :
          workers' = [workers EXCEPT
              !.calls[w].pc = "done",
              !.calls[w].ret = result_of(frame.st.vals, frame.day),
              !.locals[activation(w)] = NoFrame]
    /\ UNCHANGED <<tz, today, self, call, file, scan_vars>>

\* worker w calls create_hex_bitstring_from_data(record)
CallEncode(w) ==
    /\ workers.calls[w].pc = "idle"
    /\ \E rec \in WorkerRecords :
          workers' = [workers EXCEPT
              !.calls[w] = [pc |-> "encode",
                            op |-> "create_hex_bitstring_from_data",
                            arg |-> rec, k |-> 0, ret |-> PyNone]]
    /\ UNCHANGED <<tz, today, self, call, file, scan_vars>>

\* create_hex_bitstring_from_data: its loops over its own byte_array and
\* the conversion to hex
EncodeRun(w) ==
    /\ workers.calls[w].pc = "encode"
    /\ workers' = [workers EXCEPT
           !.calls[w].pc = "done",
           !.calls[w].ret = create_hex_bitstring_from_data(workers.calls[w].arg)]
    /\ UNCHANGED <<tz, today, self, call, file, scan_vars>>

\* the caller has taken the result; worker w is free for its next call
Finish(w) ==
    /\ workers.calls[w].pc = "done"
    /\ workers' = [workers EXCEPT !.calls[w] = IdleWorker]
    /\ UNCHANGED <<tz, today, self, call, file, scan_vars>>

NextC ==
    \E w \in Workers :
       \/ CallDecode(w) \/ DecodeBegin(w) \/ DecodeField(w) \/ DecodeReturn(w)
       \/ CallEncode(w) \/ EncodeRun(w) \/ Finish(w)

SpecC == InitC /\ [][NextC]_vars

(***************************************************************************)
(* The properties checked.                                                 *)
(***************************************************************************)
\* a float32 value: at most 24 significant bits, exponent in range
IsFloat32(v) ==
    /\ "float" \in DOMAIN v
    /\ BBitLen(v.float.man) <= 24
    /\ v.float.man # <<>> =>
          /\ v.float.exp >= -149
          /\ v.float.exp + BBitLen(v.float.man) <= 128

IsUint(v, n) == IsInt(v) /\ "neg" \notin DOMAIN v /\ Len(v.int) <= n

\* the shapes and the element types of the schema
Conforms(rec) ==
    /\ Len(rec.epochs) = num_cycles
    /\ Len(rec.start_times) = num_cycles
    /\ Len(rec.durations) = num_cycles
    /\ DOMAIN rec.electron_counts = CountIdx
    /\ DOMAIN rec.bg_counts = CountIdx
    /\ DOMAIN rec.measure_energy = EnergyIdx
    /\ DOMAIN rec.output_hv = HvIdx
    /\ DOMAIN rec.data_quality = QualityIdx
    /\ \A idx \in CountIdx :
          IsUint(rec.electron_counts[idx], 2) /\ IsUint(rec.bg_counts[idx], 2)
    /\ \A idx \in QualityIdx : IsUint(rec.data_quality[idx], 1)
    /\ \A idx \in EnergyIdx : IsFloat32(rec.measure_energy[idx])
    /\ \A idx \in HvIdx : IsFloat32(rec.output_hv[idx])
    /\ \A c \in 1..num_cycles : IsFloat32(rec.durations[c])

\* the elements of a list
Elements(list) == {list[k] : k \in 1..Len(list)}

\* the integer fields and the floats of rec, other than its timestamps,
\* are in data, each at its index tuple
ReconstructsValues(rec, data) ==
    /\ Len(data.electron_counts) = Cardinality(CountIdx)
    /\ Len(data.bg_counts) = Cardinality(CountIdx)
    /\ Len(data.measure_energy) = Cardinality(EnergyIdx)
    /\ Len(data.output_hv) = Cardinality(HvIdx)
    /\ Len(data.data_quality) = Cardinality(QualityIdx)
    /\ Len(data.data_time_duration) = num_cycles
    /\ \A idx \in CountIdx :
          /\ \E en \in Elements(data.electron_counts) :
                /\ <<en.incident_idx, en.azimuthal_idx, en.energy_idx, en.cycle>> = idx
                /\ en.count = rec.electron_counts[idx]
          /\ \E en \in Elements(data.bg_counts) :
                /\ <<en.incident_idx, en.azimuthal_idx, en.energy_idx, en.cycle>> = idx
                /\ en.count = rec.bg_counts[idx]
    /\ \A idx \in EnergyIdx :
          \E en \in Elements(data.measure_energy) :
             /\ <<en.energy_idx, en.cycle>> = idx
             /\ en.energy_value = rec.measure_energy[idx]
    /\ \A idx \in HvIdx :
          \E en \in Elements(data.output_hv) :
             /\ <<en.electrode_idx, en.energy_idx, en.incident_idx, en.cycle>> = idx
             /\ en.voltage = rec.output_hv[idx]
    /\ \A idx \in QualityIdx :
          \E en \in Elements(data.data_quality) :
             /\ <<en.energy_idx, en.azimuthal_idx, en.incident_idx, en.cycle>> = idx
             /\ en.quality = rec.data_quality[idx]
    /\ \A c \in 1..num_cycles :
          /\ data.data_time_duration[c].cycle = c - 1
          /\ data.data_time_duration[c].duration_seconds = rec.durations[c]

\* the millisecond counters of rec are in data, each at its cycle
ReconstructsTimes(rec, data) ==
    /\ Len(data.epochs) = num_cycles
    /\ Len(data.datataking_time_start) = num_cycles
    /\ \A c \in 1..num_cycles :
          /\ data.epochs[c].cycle = c - 1
          /\ data.epochs[c].timestamp_ms = timestamp_ms(rec.epochs[c], tz)
          /\ data.datataking_time_start[c].cycle = c - 1
          /\ data.datataking_time_start[c].timestamp_ms
                = timestamp_ms(rec.start_times[c], tz)

Reconstructs(rec, data) ==
    ReconstructsValues(rec, data) /\ ReconstructsTimes(rec, data)

\* C1: the decoding of the encoding of a record that conforms to the schema
\* holds every integer, every float32 and every millisecond counter of the
\* record at the index tuple it had.
C1_RoundTrip ==
    (call.op = "parse_bitstring" /\ call.cut = 0 /\ Conforms(call.record))
        => (~Raised(call.ret) /\ Reconstructs(call.record, call.ret))

\* C2: the schema's dimensions give 206,820 bytes, and every record the
\* encoder accepts is encoded in the number of bytes the dimensions give
\* (two hex characters for each).
C2_FixedLength ==
    /\ total_size(16, 7, 6, 45, 3) = 206820
    /\ (call.op = "create_hex_bitstring_from_data" /\ ~Raised(call.ret))
          => Len(call.ret.str)
                = 2 * total_size(num_energy, num_azimuthal, num_incident,
                                 num_cycles, num_electrode)

\* C3: decoding an encoded record with characters missing at its end fails;
\* no record comes back.
C3_Truncation ==
    (call.op = "parse_bitstring" /\ call.cut < 0) => Raised(call.ret)

\* C4: decoding an encoded record with characters added after its end
\* fails; no record comes back.
C4_TrailingIntegrity ==
    (call.op = "parse_bitstring" /\ call.cut > 0) => Raised(call.ret)

\* C5: at an unsigned width w of 1, 2, 4 or 8 bytes, packing a value from 0
\* to 2^(8w)-1 gives w bytes, and packing 2^(8w) or more, or a negative
\* value, raises the range error (struct.error) and gives no bytes.
C5_RangeBoundary ==
    (/\ call.op = "value_to_bytes"
     /\ ~call.arg.is_float
     /\ call.arg.num_bytes \in {1, 2, 4, 8})
        => IF /\ "neg" \notin DOMAIN call.arg.value
              /\ BCmp(call.arg.value.int, Pow256(call.arg.num_bytes)) < 0
           THEN IsBytes(call.ret) /\ Len(call.ret.bytes) = call.arg.num_bytes
           ELSE Raised(call.ret) /\ call.ret.err = "struct.error"

\* 65536 was packed at width 2 and the call raised
C5_Witness ==
    /\ call.op = "value_to_bytes"
    /\ call.arg = [value |-> PyInt(<<0, 0, 1>>), num_bytes |-> 2,
                   is_float |-> FALSE]
    /\ Raised(call.ret)

\* C6: scanning the file the writer made from two records returns two
\* entries, with the indices 1 and 2 in this order; the strings handed to
\* the decoder are the encodings of the two records, and the data of each
\* entry reconstructs its record.
C6_ContainerRoundTrip ==
    (/\ call.op = "parse_multiple_bitstrings"
     /\ scan_pc = "idle"
     /\ "drawn" \in DOMAIN file
     /\ Len(file.drawn) = 2)
        => /\ "list" \in DOMAIN call.ret
           /\ Len(call.ret.list) = 2
           /\ Len(parsed) = 2
           /\ \A k \in 1..2 :
                 /\ call.ret.list[k].bitstring_index = PyInt(<<k>>)
                 /\ parsed[k].index = PyInt(<<k>>)
                 /\ parsed[k].payload
                       = create_hex_bitstring_from_data(file.drawn[k]).str
                 /\ Reconstructs(file.drawn[k], call.ret.list[k].data)

\* C7: the entry decoded from the 8 bytes of a millisecond counter m reports
\* timestamp_ms = m, for every m of 64 bits.
C7_TimestampRoundTrip ==
    call.op = "bytes_to_tt2000"
        => /\ ~Raised(call.ret)
           /\ call.ret.timestamp_ms = PyInt(BNorm(Reverse(call.arg)))

\* C8: a call of the encoder changes nothing but its own result, and when
\* it follows an encoding of the same record, whatever the day, it returns
\* the same hex string.
C8_EncoderDeterminism ==
    [][(call'.op = "create_hex_bitstring_from_data" /\ call' # call)
          => /\ UNCHANGED <<tz, today, self, file, scan_vars>>
             /\ (call.op = "create_hex_bitstring_from_data"
                 /\ call'.arg = call.arg) => call'.ret = call.ret]_vars

\* a record with timestamps was encoded a second time, on the next day
C8_Witness ==
    /\ call.op = "create_hex_bitstring_from_data"
    /\ call.again
    /\ today = 1
    /\ call.arg = RampRecord
    /\ ~Raised(call.ret)

\* a token without the colon at its end, if it has one
StripTrailingColon(token) ==
    IF Len(token) > 0 /\ token[Len(token)] = ":" THEN DropLast(token, 1)
    ELSE token

\* the index of a header line as the rule tells it: the integer of the
\* second word without its trailing colon, None when there is none
RuleIndex(line) ==
    IF Len(split(line)) < 2 THEN PyNone
    ELSE IF Raised(int(StripTrailingColon(split(line)[2]))) THEN PyNone
    ELSE int(StripTrailingColon(split(line)[2]))

\* C9: once the scan has consumed a line that begins with Bitstring, a new
\* entry is open: its payload is empty and its index is the integer of the
\* line's second word without its trailing colon.
C9_HeaderRule ==
    (/\ scan_pc = "scan"
     /\ lineno > 0
     /\ startswith(strip(lines[lineno]), Bitstring))
        => /\ current_bitstring = <<>>
           /\ current_index = RuleIndex(strip(lines[lineno]))

\* the last of the first n lines that begins with Bitstring, 0 if none
LastHeader(n) ==
    IF \E h \in 1..n : startswith(strip(lines[h]), Bitstring)
    THEN CHOOSE h \in 1..n :
            /\ startswith(strip(lines[h]), Bitstring)
            /\ \A j \in (h + 1)..n : ~startswith(strip(lines[j]), Bitstring)
    ELSE 0

\* the lines after the last header among the first n lines, stripped and
\* concatenated in file order
Assembled(n) ==
    Bind(LastHeader(n), LAMBDA h :
        Flatten([k \in 1..(n - h) |-> strip(lines[h + k])]))

\* C10: whenever the scan hands a payload to the decoder, at a header line
\* or at the end of the input, the payload is the concatenation, in file
\* order and with nothing between them, of the lines (stripped, so blank
\* lines add nothing) that follow the entry's header up to there.
C10_PayloadAssembly ==
    [][(scan_pc = "scan" /\ parsed' # parsed)
          => /\ Len(parsed') = Len(parsed) + 1
             /\ LastHeader(lineno) > 0
             /\ parsed'[Len(parsed')].payload = Assembled(lineno)]_vars

\* a payload was assembled from two lines with a blank line between them
C10_Witness ==
    /\ scan_pc = "idle"
    /\ call.op = "parse_multiple_bitstrings"
    /\ Len(lines) = 4
    /\ strip(lines[3]) = <<>>
    /\ Len(parsed) = 1
    /\ parsed[1].payload = strip(lines[2]) \o strip(lines[4])
    /\ strip(lines[2]) # <<>>
    /\ strip(lines[4]) # <<>>

\* the numbers of the lines that begin with Bitstring
HeaderLines ==
    {h \in 1..Len(lines) : startswith(strip(lines[h]), Bitstring)}

\* the members of a set of numbers, in ascending order
Ascending(S) ==
    [k \in 1..Cardinality(S) |->
        CHOOSE i \in S : Cardinality({j \in S : j <= i}) = k]

\* the header line after line h, or the line after the last one
NextHeader(h) ==
    IF \E j \in HeaderLines : j > h
    THEN CHOOSE j \in HeaderLines :
            j > h /\ \A i \in HeaderLines : i > h => j <= i
    ELSE Len(lines) + 1

\* the lines between header h and the next header, stripped and joined
PayloadOf(h) ==
    Bind(NextHeader(h), LAMBDA n :
        Flatten([k \in 1..(n - h - 1) |-> strip(lines[h + k])]))

\* the second word of a header line is missing or, its colons aside, is
\* not an integer
Malformed(line) ==
    \/ Len(split(line)) < 2
    \/ Raised(int(replace(split(line)[2], ":", <<>>)))

\* the entries of the text: of every header that is not malformed and has
\* a payload, in file order, its index and its payload
EntriesOf(hs) ==
    [k \in 1..Len(hs) |->
        [index   |-> int(replace(split(strip(lines[hs[k]]))[2], ":", <<>>)),
         payload |-> PayloadOf(hs[k])]]

WellFormedEntries ==
    EntriesOf(Ascending({h \in HeaderLines :
                            /\ ~Malformed(strip(lines[h]))
                            /\ PayloadOf(h) # <<>>}))

\* the malformed header lines of the text, stripped, in file order
MalformedHeaders ==
    Bind(Ascending({h \in HeaderLines : Malformed(strip(lines[h]))}),
         LAMBDA hs : [k \in 1..Len(hs) |-> strip(lines[hs[k]])])

\* C11: a scan of a text with a malformed header ends normally unless the
\* decoder raised on a payload it was given; when it ends normally every
\* malformed header was reported, no entry was made of the lines below a
\* malformed header, and every well-formed entry, before and after, is
\* returned with its index and its payload.
C11_MalformedHeaderRecovery ==
    (/\ scan_pc = "idle"
     /\ call.op = "parse_multiple_bitstrings"
     /\ ~IsNone(file)
     /\ MalformedHeaders # <<>>)
        => IF "err" \in DOMAIN call.ret
           THEN /\ parsed # <<>>
                /\ Raised(parse_bitstring(parsed[Len(parsed)].payload))
           ELSE /\ warnings = MalformedHeaders
                /\ parsed = WellFormedEntries
                /\ Len(call.ret.list) = Len(parsed)
                /\ \A k \in 1..Len(parsed) :
                      /\ call.ret.list[k].bitstring_index = parsed[k].index
                      /\ call.ret.list[k].data = parse_bitstring(parsed[k].payload)

\* a text with a well-formed entry, a malformed header with lines below
\* it, and another well-formed entry was scanned to its end
C11_Witness ==
    /\ scan_pc = "idle"
    /\ call.op = "parse_multiple_bitstrings"
    /\ "list" \in DOMAIN call.ret
    /\ Len(warnings) = 1
    /\ Len(lines) = 6
    /\ Malformed(strip(lines[3]))
    /\ strip(lines[4]) # <<>>
    /\ Len(call.ret.list) = 2
    /\ call.ret.list[1].bitstring_index = PyInt(<<1>>)
    /\ call.ret.list[2].bitstring_index = PyInt(<<3>>)

\* C12: the step that ends the scan at the end of the input, with an entry
\* open (an index and a payload), either raises what the decoder raised on
\* that payload or returns the results so far followed by that entry.
C12_FinalFlush ==
    [][(/\ scan_pc = "scan"
        /\ scan_pc' = "idle"
        /\ lineno' = lineno
        /\ ~IsNone(current_index)
        /\ current_bitstring # <<>>)
          => IF Raised(parse_bitstring(current_bitstring))
             THEN call'.ret = parse_bitstring(current_bitstring)
             ELSE /\ call'.ret =
                        [list |-> Append(results,
                                    [bitstring_index |-> current_index,
                                     data |-> parse_bitstring(current_bitstring)])]
                  /\ results' = call'.ret.list]_vars

\* a scan returned an entry whose payload is the last line of the text
C12_Witness ==
    /\ scan_pc = "idle"
    /\ call.op = "parse_multiple_bitstrings"
    /\ "list" \in DOMAIN call.ret
    /\ Len(lines) = 2
    /\ lineno = 2
    /\ Len(call.ret.list) = 1
    /\ call.ret.list[1].bitstring_index = PyInt(<<1>>)
    /\ parsed[1].payload = strip(lines[2])
    /\ lines[2][Len(lines[2])] = "\n"

\* the writer calls
WriterOps ==
    {"generate_multiple_bitstrings", "generate_multiple_bitstrings_with_settings"}

\* C13: after a writer call that returned, the file holds three lines for
\* every entry, in input order: the header "Bitstring k:" and nothing
\* else, the hex string of the k-th record, and an empty line.
C13_WriterFormat ==
    (call.op \in WriterOps /\ IsNone(call.ret))
        => Bind(readlines(file.text), LAMBDA ls :
              /\ Len(ls) = 3 * Len(file.drawn)
              /\ \A k \in 1..Len(file.drawn) :
                    /\ ls[3 * k - 2] = Bitstring \o <<" ">> \o str(k) \o <<":", "\n">>
                    /\ ls[3 * k - 1] =
                          create_hex_bitstring_from_data(file.drawn[k]).str
                          \o <<"\n">>
                    /\ ls[3 * k] = <<"\n">>)

\* C14: the entries a scan returns are those of the headers of the text,
\* one for one in the order of the headers, each with the index its own
\* header carries, whatever the indices are.
C14_EncounterOrder ==
    (/\ scan_pc = "idle"
     /\ call.op = "parse_multiple_bitstrings"
     /\ ~IsNone(file)
     /\ "list" \in DOMAIN call.ret)
        => Bind(WellFormedEntries, LAMBDA entries :
              /\ Len(call.ret.list) = Len(entries)
              /\ \A k \in 1..Len(entries) :
                    call.ret.list[k].bitstring_index = entries[k].index)

\* a text with the indices 9, 2, 9 was scanned: unsorted, not contiguous
\* and repeated
C14_Witness ==
    /\ scan_pc = "idle"
    /\ call.op = "parse_multiple_bitstrings"
    /\ "list" \in DOMAIN call.ret
    /\ Len(call.ret.list) = 3
    /\ call.ret.list[1].bitstring_index = PyInt(<<9>>)
    /\ call.ret.list[2].bitstring_index = PyInt(<<2>>)
    /\ call.ret.list[3].bitstring_index = PyInt(<<9>>)

\* the shapes of the schema: the lengths of the three sequences and the
\* index sets of the five arrays
Shaped(rec) ==
    /\ Len(rec.epochs) = num_cycles
    /\ Len(rec.start_times) = num_cycles
    /\ Len(rec.durations) = num_cycles
    /\ DOMAIN rec.electron_counts = CountIdx
    /\ DOMAIN rec.bg_counts = CountIdx
    /\ DOMAIN rec.measure_energy = EnergyIdx
    /\ DOMAIN rec.output_hv = HvIdx
    /\ DOMAIN rec.data_quality = QualityIdx

\* C15: the encoding of a record with a field of another shape than the
\* schema's raises, and so gives no hex string.
C15_ShapeValidation ==
    (call.op = "create_hex_bitstring_from_data" /\ ~Shaped(call.arg))
        => Raised(call.ret)

\* the widths the scalar codec supports for a kind
Supported(width, is_float) ==
    IF is_float THEN width \in {4, 8} ELSE width \in {1, 2, 4, 8}

\* C16: packing at, and unpacking of, a width the kind does not support
\* raises.
C16_UnsupportedWidth ==
    /\ (/\ call.op = "value_to_bytes"
        /\ ~Supported(call.arg.num_bytes, call.arg.is_float))
          => Raised(call.ret)
    /\ (/\ call.op = "bytes_to_value"
        /\ ~Supported(Len(call.arg.byte_data), call.arg.is_float))
          => Raised(call.ret)

\* the entry a decoder whose host is in zone z makes of 8 timestamp bytes
EntryInZone(byte_data, z) ==
    Bind(struct_unpack_uint(byte_data, 8), LAMBDA ms :
    IF Raised(ms) THEN ms ELSE
    Bind(fromtimestamp(DDivSmall(DFromInt(ms.int), 1000), z), LAMBDA dt :
    IF Raised(dt) THEN dt ELSE
    Bind(timestamp_ms(dt, z), LAMBDA back :
    IF Raised(back) THEN back
    ELSE [cycle |-> 0, timestamp_ms |-> back, iso_format |-> <<dt.wall, dt.us>>])))

\* C17: what the decoder makes of 8 timestamp bytes is what a decoder in
\* UTC makes of them: the same ISO string and the same timestamp_ms.
C17_TimeZoneIndependence ==
    call.op = "bytes_to_tt2000" => call.ret = EntryInZone(call.arg, 0)

\* C19: a decoding of the string that was decoded by the call before
\* returns what that call returned, in every part, and changes nothing
\* outside the call.
C19_DecoderPurity ==
    [][(/\ call.op = "parse_bitstring"
        /\ call'.op = "parse_bitstring"
        /\ call'.arg = call.arg)
          => /\ call'.ret = call.ret
             /\ UNCHANGED <<self, file, scan_vars>>]_vars

\* the sizes in bytes of the eight fields, for given dimensions
FieldSizes(n_energy, n_azimuthal, n_incident, n_cycles, n_electrode) ==
    <<n_cycles * 8,
      n_incident * n_azimuthal * n_energy * n_cycles * 2,
      n_incident * n_azimuthal * n_energy * n_cycles * 2,
      n_energy * n_cycles * 4,
      n_electrode * n_energy * n_incident * n_cycles * 4,
      n_cycles * 8,
      n_cycles * 4,
      n_energy * n_azimuthal * n_incident * n_cycles * 1>>

\* the sum of the first n numbers of a sequence
RECURSIVE SumOfFirst(_, _)
SumOfFirst(sizes, n) ==
    IF n = 0 THEN 0 ELSE SumOfFirst(sizes, n - 1) + sizes[n]

\* the start offsets of the eight fields and, ninth, the end of the
\* buffer: field after field with nothing between them
FieldOffsets(sizes) == [f \in 1..9 |-> SumOfFirst(sizes, f - 1)]

\* the w bytes at offset base + w * r of a buffer are the given bytes
ElementAt(buffer, base, w, r, piece) ==
    /\ IsBytes(piece)
    /\ Len(piece.bytes) = w
    /\ Slice(buffer, base + w * r, w) = piece.bytes

\* the eight fields of rec lie in the buffer at the offsets at, every
\* element at the row-major position of its index tuple in the axis order
\* of its field
LaidOut(rec, buffer, at) ==
    /\ Len(buffer) = at[9]
    /\ \A c \in 1..num_cycles :
          /\ ElementAt(buffer, at[1], 8, c - 1, epoch_to_bytes(rec.epochs[c]))
          /\ ElementAt(buffer, at[6], 8, c - 1, epoch_to_bytes(rec.start_times[c]))
          /\ ElementAt(buffer, at[7], 4, c - 1,
                       value_to_bytes(rec.durations[c], 4, TRUE))
    /\ \A idx \in CountIdx :
          /\ ElementAt(buffer, at[2], 2,
                       RowMajor4(idx, num_azimuthal, num_energy, num_cycles),
                       value_to_bytes(rec.electron_counts[idx], 2, FALSE))
          /\ ElementAt(buffer, at[3], 2,
                       RowMajor4(idx, num_azimuthal, num_energy, num_cycles),
                       value_to_bytes(rec.bg_counts[idx], 2, FALSE))
    /\ \A idx \in EnergyIdx :
          ElementAt(buffer, at[4], 4, idx[1] * num_cycles + idx[2],
                    value_to_bytes(rec.measure_energy[idx], 4, TRUE))
    /\ \A idx \in HvIdx :
          ElementAt(buffer, at[5], 4,
                    RowMajor4(idx, num_energy, num_incident, num_cycles),
                    value_to_bytes(rec.output_hv[idx], 4, TRUE))
    /\ \A idx \in QualityIdx :
          ElementAt(buffer, at[8], 1,
                    RowMajor4(idx, num_azimuthal, num_incident, num_cycles),
                    value_to_bytes(rec.data_quality[idx], 1, FALSE))

\* C20: with the dimensions 16, 7, 6, 45, 3 the fields start at 0, 360,
\* 60840, 121320, 124200, 176040, 176400, 176580 and end at 206820; and
\* the buffer of every encoded record of the schema's shape holds the
\* eight fields in that order with nothing between them, every element at
\* base + w * r for the row-major position r of its index tuple.
C20_BinaryLayout ==
    /\ FieldOffsets(FieldSizes(16, 7, 6, 45, 3))
          = <<0, 360, 60840, 121320, 124200, 176040, 176400, 176580, 206820>>
    /\ (/\ call.op = "create_hex_bitstring_from_data"
        /\ Shaped(call.arg)
        /\ ~Raised(call.ret))
          => Bind(fromhex(call.ret.str), LAMBDA buffer :
                /\ IsBytes(buffer)
                /\ LaidOut(call.arg, buffer.bytes,
                           FieldOffsets(FieldSizes(num_energy, num_azimuthal,
                               num_incident, num_cycles, num_electrode))))

\* the record whose elements all differ from their neighbours was encoded
C20_Witness ==
    /\ call.op = "create_hex_bitstring_from_data"
    /\ call.arg = RampRecord
    /\ ~call.again
    /\ today = 0
    /\ ~Raised(call.ret)
    /\ Len(call.ret.str) =
          2 * FieldOffsets(FieldSizes(num_energy, num_azimuthal, num_incident,
                                      num_cycles, num_electrode))[9]

\* what a call returns when it runs alone
Alone(c) ==
    IF c.op = "parse_bitstring" THEN parse_bitstring(c.arg)
    ELSE create_hex_bitstring_from_data(c.arg)

\* C18: whatever the interleaving of the calls of the workers, every call
\* that has returned or raised gave what the same call gives when it runs
\* alone, and the parser instance is as it was made.
C18_ConcurrencyIndependence ==
    /\ self = BitStringParser_init
    /\ \A w \in Workers :
          workers.calls[w].pc = "done" => workers.calls[w].ret = Alone(workers.calls[w])

\* a decoding returned while another worker was in the middle of decoding
\* another string
C18_Witness ==
    /\ workers.calls["a"].pc = "done"
    /\ workers.calls["a"].op = "parse_bitstring"
    /\ ~Raised(workers.calls["a"].ret)
    /\ workers.calls["b"].pc = "field"
    /\ workers.calls["b"].k = 5
    /\ workers.calls["b"].arg # workers.calls["a"].arg

\* the bytes of an element of each of the eight fields, in field order
ElementWidths == <<8, 2, 2, 4, 4, 8, 4, 1>>

\* the start offsets of the eight fields under the dimensions of the model
Offsets ==
    FieldOffsets(FieldSizes(num_energy, num_azimuthal, num_incident,
                            num_cycles, num_electrode))

\* what is read of the w bytes at offset base + w * r of a buffer
ReadAt(buffer, base, w, r, kind) == ReadOne(Slice(buffer, base + w * r, w), kind)

\* a timestamp entry carries what is read at position r of its field
StampReadAt(e, buffer, base) ==
    [timestamp_ms |-> e.timestamp_ms, iso_format |-> e.iso_format]
        = ReadAt(buffer, base, 8, e.cycle, "tt2000")

\* every decoded entry carries what is read of the byte range in which the
\* encoder puts the element of the entry's index tuple: the range LaidOut
\* gives it
DecodedInPlace(data, buffer, at) ==
    /\ \A k \in 1..Len(data.epochs) :
          StampReadAt(data.epochs[k], buffer, at[1])
    /\ \A k \in 1..Len(data.datataking_time_start) :
          StampReadAt(data.datataking_time_start[k], buffer, at[6])
    /\ \A k \in 1..Len(data.data_time_duration) :
          Bind(data.data_time_duration[k], LAMBDA e :
             e.duration_seconds = ReadAt(buffer, at[7], 4, e.cycle, "float"))
    /\ \A k \in 1..Len(data.electron_counts) :
          Bind(data.electron_counts[k], LAMBDA e :
             e.count = ReadAt(buffer, at[2], 2,
                          RowMajor4(<<e.incident_idx, e.azimuthal_idx,
                                      e.energy_idx, e.cycle>>,
                                    num_azimuthal, num_energy, num_cycles),
                          "uint"))
    /\ \A k \in 1..Len(data.bg_counts) :
          Bind(data.bg_counts[k], LAMBDA e :
             e.count = ReadAt(buffer, at[3], 2,
                          RowMajor4(<<e.incident_idx, e.azimuthal_idx,
                                      e.energy_idx, e.cycle>>,
                                    num_azimuthal, num_energy, num_cycles),
                          "uint"))
    /\ \A k \in 1..Len(data.measure_energy) :
          Bind(data.measure_energy[k], LAMBDA e :
             e.energy_value = ReadAt(buffer, at[4], 4,
                                 e.energy_idx * num_cycles + e.cycle, "float"))
    /\ \A k \in 1..Len(data.output_hv) :
          Bind(data.output_hv[k], LAMBDA e :
             e.voltage = ReadAt(buffer, at[5], 4,
                            RowMajor4(<<e.electrode_idx, e.energy_idx,
                                        e.incident_idx, e.cycle>>,
                                      num_energy, num_incident, num_cycles),
                            "float"))
    /\ \A k \in 1..Len(data.data_quality) :
          Bind(data.data_quality[k], LAMBDA e :
             e.quality = ReadAt(buffer, at[8], 1,
                            RowMajor4(<<e.energy_idx, e.azimuthal_idx,
                                        e.incident_idx, e.cycle>>,
                                      num_azimuthal, num_incident, num_cycles),
                            "uint"))

\* C21: a running decoding has one cursor; it is 0 before the first field
\* and, before field k, the sum over the fields read so far of the number
\* of their elements times the element width 8, 2, 2, 4, 4, 8, 4, 1, so it
\* never decreases and no byte is passed twice; and every entry of a
\* decoding that returned carries what is read of the byte range the
\* encoder gives the element of that index tuple.
C21_DecoderCursor ==
    /\ Offsets[1] = 0
    /\ \A k \in 1..8 :
          /\ field_loop(k).w = ElementWidths[k]
          /\ Offsets[k + 1] = Offsets[k] + field_loop(k).n * ElementWidths[k]
    /\ \A w \in Workers :
          /\ workers.calls[w].pc \in {"field", "return"}
                => /\ workers.locals[w].st.pos = Offsets[workers.calls[w].k]
                   /\ Len(workers.locals[w].st.vals) = workers.calls[w].k - 1
          /\ (/\ workers.calls[w].pc = "done"
              /\ workers.calls[w].op = "parse_bitstring"
              /\ ~Raised(workers.calls[w].ret))
                => DecodedInPlace(workers.calls[w].ret,
                                  fromhex(workers.calls[w].arg).bytes, Offsets)

\* a decoding of the encoding of the record whose elements all differ from
\* their neighbours has returned, and another is about to return, its
\* cursor having passed every field
C21_Witness ==
    /\ workers.calls["a"].pc = "done"
    /\ workers.calls["a"].op = "parse_bitstring"
    /\ ~Raised(workers.calls["a"].ret)
    /\ workers.calls["a"].arg = create_hex_bitstring_from_data(RampRecord).str
    /\ workers.calls["b"].pc = "return"
    /\ workers.calls["b"].k = 9
    /\ workers.locals["b"].st.pos = Offsets[9]
    /\ Offsets[9] > 0

\* C22: a scan of a text that is there returns, whatever its payloads are,
\* the entries of the text, every one with its index and not decoded: the
\* scan does not run the decoder, so a payload the decoder cannot decode
\* does not keep the other entries from being returned.
C22_Decoupling ==
    (/\ scan_pc = "idle"
     /\ call.op = "parse_multiple_bitstrings"
     /\ ~IsNone(file))
        => /\ "list" \in DOMAIN call.ret
           /\ Bind(WellFormedEntries, LAMBDA entries :
                 /\ Len(call.ret.list) = Len(entries)
                 /\ \A k \in 1..Len(entries) :
                       /\ call.ret.list[k].bitstring_index = entries[k].index
                       /\ call.ret.list[k].data
                             # parse_bitstring(entries[k].payload))

\* the sum over k of b[k] * 256^(n - k) for the first n bytes of b, as
\* digits
RECURSIVE WeightedSum(_, _)
WeightedSum(b, n) ==
    IF n = 0 THEN <<>>
    ELSE Bind(WeightedSum(b, n - 1), LAMBDA high :
            BAdd(BMulSmall(high, 256), BFromNat(b[n])))

\* C23: packing an unsigned value below 256^w at a width w of 1, 2, 4 or 8
\* gives w bytes whose sum of b[k] * 256^(w-1-k) is the value, unpacking
\* those bytes gives the value back, and the bytes of a timestamp are the
\* 8 bytes of its milliseconds in the same order.
C23_BigEndianPacking ==
    /\ (/\ call.op = "value_to_bytes"
        /\ ~call.arg.is_float
        /\ call.arg.num_bytes \in {1, 2, 4, 8}
        /\ "neg" \notin DOMAIN call.arg.value
        /\ Len(call.arg.value.int) <= call.arg.num_bytes)
          => /\ IsBytes(call.ret)
             /\ Len(call.ret.bytes) = call.arg.num_bytes
             /\ \A k \in 1..Len(call.ret.bytes) : call.ret.bytes[k] \in Byte
             /\ WeightedSum(call.ret.bytes, call.arg.num_bytes)
                   = call.arg.value.int
    /\ (/\ call.op = "bytes_to_value"
        /\ ~call.arg.is_float
        /\ ~call.packed.is_float
        /\ call.packed.num_bytes \in {1, 2, 4, 8}
        /\ Len(call.arg.byte_data) = call.packed.num_bytes)
          => call.ret = call.packed.value
    /\ (call.op = "epoch_to_bytes" /\ ~Raised(call.ret))
          => /\ IsBytes(call.ret)
             /\ Len(call.ret.bytes) = 8
             /\ WeightedSum(call.ret.bytes, 8) = timestamp_ms(call.arg, tz).int

\* 999 was packed at width 4 into 00 00 03 e7 and unpacked from them
C23_Witness ==
    /\ call.op = "bytes_to_value"
    /\ ~call.arg.is_float
    /\ call.packed = [value |-> PyInt(<<231, 3>>), num_bytes |-> 4,
                      is_float |-> FALSE]
    /\ call.arg.byte_data = <<0, 0, 3, 231>>
    /\ call.ret = PyInt(<<231, 3>>)

\* a float that is neither an infinity nor a NaN
Finite(value) == "float" \in DOMAIN value

\* the magnitude of a finite float is 2^128 or more: beyond every finite
\* float32
BeyondFloat32(value) ==
    /\ value.float.man # <<>>
    /\ value.float.exp + BBitLen(value.float.man) - 1 >= 128

\* C24: packing a finite float at width 4 or 8 gives that many bytes and
\* never raises, and at width 4 a value beyond the float32 range gives the
\* bytes of the infinity of its sign.
C24_FloatPackingNeverFails ==
    (/\ call.op = "value_to_bytes"
     /\ call.arg.is_float
     /\ call.arg.num_bytes \in {4, 8}
     /\ Finite(call.arg.value))
        => /\ IsBytes(call.ret)
           /\ Len(call.ret.bytes) = call.arg.num_bytes
           /\ (call.arg.num_bytes = 4 /\ BeyondFloat32(call.arg.value))
                 => call.ret.bytes
                       = <<IF call.arg.value.neg THEN 255 ELSE 127, 128, 0, 0>>

\* C25: the dimensions the parser was made with are those it has after
\* every sequence of encodings, decodings, scans and exports, and no step
\* changes them.
C25_SchemaImmutability ==
    [][self = BitStringParser_init /\ self' = self]_vars

\* a container of two records was written, scanned, its payloads decoded,
\* and the list exported
C25_Witness ==
    /\ call.op = "save_as_json"
    /\ Len(call.arg) = 2
    /\ IsNone(call.ret)
    /\ ~IsNone(file)
    /\ "drawn" \in DOMAIN file
    /\ self = BitStringParser_init

\* C26: during a scan and after it, nothing is accumulated while no entry
\* is open (before the first header, and below a header whose index could
\* not be read), and when the scan has ended every payload that was handed
\* on is made of the lines between its own header and the next header, and
\* of no other line.
C26_OrphanLines ==
    (call.op = "parse_multiple_bitstrings" /\ ~IsNone(file))
        => /\ IsNone(current_index) => current_bitstring = <<>>
           /\ scan_pc = "idle"
                 => Bind(WellFormedEntries, LAMBDA entries :
                       /\ Len(parsed) <= Len(entries)
                       /\ \A k \in 1..Len(parsed) :
                             parsed[k].payload = entries[k].payload)

\* a scan returned one entry of a text whose first header is malformed and
\* has a payload line below it
C26_Witness ==
    /\ scan_pc = "idle"
    /\ call.op = "parse_multiple_bitstrings"
    /\ "list" \in DOMAIN call.ret
    /\ Len(lines) = 5
    /\ Malformed(strip(lines[1]))
    /\ strip(lines[2]) # <<>>
    /\ ~startswith(strip(lines[2]), Bitstring)
    /\ Len(call.ret.list) = 1
    /\ call.ret.list[1].bitstring_index = PyInt(<<2>>)
    /\ parsed[1].payload = strip(lines[5])

\* the header lines whose index can be read
ValidHeaders == {h \in HeaderLines : ~Malformed(strip(lines[h]))}

\* C27: a scan that returned made an entry of every header with a readable
\* index and a payload, and none of a header that has no non-empty line
\* before the next header or the end of the input; so there are at most as
\* many entries as headers with a readable index, and every entry has an
\* integer index and a payload that is not empty.
C27_EmptyEntriesDropped ==
    (/\ scan_pc = "idle"
     /\ call.op = "parse_multiple_bitstrings"
     /\ ~IsNone(file)
     /\ "list" \in DOMAIN call.ret)
        => /\ Len(call.ret.list)
                 = Cardinality({h \in ValidHeaders : PayloadOf(h) # <<>>})
           /\ Len(call.ret.list) <= Cardinality(ValidHeaders)
           /\ Len(parsed) = Len(call.ret.list)
           /\ \A k \in 1..Len(call.ret.list) :
                 /\ IsInt(call.ret.list[k].bitstring_index)
                 /\ call.ret.list[k].bitstring_index = parsed[k].index
                 /\ parsed[k].payload # <<>>

\* a scan returned one entry of a text with two headers, the first of
\* which has only an empty line below it
C27_Witness ==
    /\ scan_pc = "idle"
    /\ call.op = "parse_multiple_bitstrings"
    /\ "list" \in DOMAIN call.ret
    /\ Len(lines) = 4
    /\ Cardinality(ValidHeaders) = 2
    /\ 1 \in ValidHeaders
    /\ strip(lines[2]) = <<>>
    /\ Len(call.ret.list) = 1
    /\ call.ret.list[1].bitstring_index = PyInt(<<6>>)

\* the file is what generate_multiple_bitstrings_with_settings wrote of
\* the records it drew, half of them of either setting
WrittenWithSettings ==
    /\ ~IsNone(file)
    /\ "drawn" \in DOMAIN file
    /\ Len(file.drawn) % 2 = 0
    /\ file.text =
          generate_multiple_bitstrings_with_settings(
              Len(file.drawn) \div 2,
              [k \in 1..Len(file.drawn) |->
                  create_hex_bitstring_from_data(file.drawn[k])]).text

\* C28: a scan of a container written by
\* generate_multiple_bitstrings_with_settings(n, ...) returns 2n entries
\* with the indices 1 to 2n in that order, those of setting 1 first, and
\* the payload of entry k is the hex string written under header k.
C28_AnnotatedHeaders ==
    (/\ scan_pc = "idle"
     /\ call.op = "parse_multiple_bitstrings"
     /\ WrittenWithSettings)
        => /\ "list" \in DOMAIN call.ret
           /\ Len(call.ret.list) = Len(file.drawn)
           /\ Len(parsed) = Len(file.drawn)
           /\ \A k \in 1..Len(file.drawn) :
                 /\ call.ret.list[k].bitstring_index = PyInt(BFromNat(k))
                 /\ parsed[k].index = PyInt(BFromNat(k))
                 /\ parsed[k].payload
                       = create_hex_bitstring_from_data(file.drawn[k]).str
                 /\ call.ret.list[k].data = parse_bitstring(parsed[k].payload)
                 /\ file.drawn[k] \in (IF 2 * k <= Len(file.drawn)
                                       THEN Setting1Records ELSE Setting2Records)

\* a container with the headers "Bitstring 1 (Setting 1):" and
\* "Bitstring 2 (Setting 2):" was scanned
C28_Witness ==
    /\ scan_pc = "idle"
    /\ call.op = "parse_multiple_bitstrings"
    /\ WrittenWithSettings
    /\ Len(file.drawn) = 2
    /\ Len(lines) = 6
    /\ split(strip(lines[1])) = <<Bitstring, <<"1">>, <<"(", "S", "e", "t", "t", "i", "n", "g">>, <<"1", ")", ":">>>>
    /\ split(strip(lines[4])) = <<Bitstring, <<"2">>, <<"(", "S", "e", "t", "t", "i", "n", "g">>, <<"2", ")", ":">>>>
    /\ Len(call.ret.list) = 2

\* the number of elements of each of the eight fields, for given dimensions
FieldCounts(n_energy, n_azimuthal, n_incident, n_cycles, n_electrode) ==
    <<n_cycles,
      n_incident * n_azimuthal * n_energy * n_cycles,
      n_incident * n_azimuthal * n_energy * n_cycles,
      n_energy * n_cycles,
      n_electrode * n_energy * n_incident * n_cycles,
      n_cycles,
      n_cycles,
      n_energy * n_azimuthal * n_incident * n_cycles>>

\* the lengths of the eight lists of a decoded record, in field order
ListLengths(data) ==
    <<Len(data.epochs), Len(data.electron_counts), Len(data.bg_counts),
      Len(data.measure_energy), Len(data.output_hv),
      Len(data.datataking_time_start), Len(data.data_time_duration),
      Len(data.data_quality)>>

\* C29: with the dimensions 16, 7, 6, 45, 3 a record has 206820 bytes and
\* 45, 30240, 30240, 720, 12960, 45, 45, 30240 elements; and on every input
\* on which parse_bitstring returns, however long it is, the cursor ends at
\* the length of a whole record and every field has the number of elements
\* of the schema.
C29_UnconditionalAdvance ==
    /\ FieldOffsets(FieldSizes(16, 7, 6, 45, 3))[9] = 206820
    /\ FieldCounts(16, 7, 6, 45, 3)
          = <<45, 30240, 30240, 720, 12960, 45, 45, 30240>>
    /\ (call.op = "parse_bitstring" /\ ~Raised(call.ret))
          => /\ call.pos = Offsets[9]
             /\ ListLengths(call.ret)
                   = FieldCounts(num_energy, num_azimuthal, num_incident,
                                 num_cycles, num_electrode)

\* parse_bitstring returned on an input that lacks the whole last field,
\* and on it the cursor ended beyond the end of the input
C29_Witness ==
    /\ call.op = "parse_bitstring"
    /\ ~Raised(call.ret)
    /\ call.cut = 0 - QualityChars
    /\ 2 * call.pos = Len(call.arg) + QualityChars
    /\ call.pos = Offsets[9]
    /\ \A k \in 1..Len(call.ret.data_quality) :
          IsNone(call.ret.data_quality[k].quality)

\* the r-th index tuple (from 0) in lexicographic order of four axes, the
\* last three of the sizes n2, n3, n4
TupleAt(r, n2, n3, n4) ==
    <<r \div (n2 * n3 * n4), (r \div (n3 * n4)) % n2, (r \div n4) % n3, r % n4>>

\* the flattened list of a four-axis field: as many entries as index
\* tuples, entry k with the k-th tuple in lexicographic order, the cycle
\* innermost, and with what was read at cursor position base + w * (k - 1)
Enumerated(list, n1, n2, n3, n4, Tup(_), Val(_), buffer, base, w, kind) ==
    /\ Len(list) = n1 * n2 * n3 * n4
    /\ \A k \in 1..Len(list) :
          /\ Tup(list[k]) = TupleAt(k - 1, n2, n3, n4)
          /\ Val(list[k]) = ReadAt(buffer, base, w, k - 1, kind)

\* the lists of the five fields with more than one axis
EnumeratedAll(data, buffer, at) ==
    /\ Enumerated(data.electron_counts,
                  num_incident, num_azimuthal, num_energy, num_cycles,
                  LAMBDA e : <<e.incident_idx, e.azimuthal_idx, e.energy_idx,
                               e.cycle>>,
                  LAMBDA e : e.count, buffer, at[2], 2, "uint")
    /\ Enumerated(data.bg_counts,
                  num_incident, num_azimuthal, num_energy, num_cycles,
                  LAMBDA e : <<e.incident_idx, e.azimuthal_idx, e.energy_idx,
                               e.cycle>>,
                  LAMBDA e : e.count, buffer, at[3], 2, "uint")
    /\ Enumerated(data.measure_energy, 1, 1, num_energy, num_cycles,
                  LAMBDA e : <<0, 0, e.energy_idx, e.cycle>>,
                  LAMBDA e : e.energy_value, buffer, at[4], 4, "float")
    /\ Enumerated(data.output_hv,
                  num_electrode, num_energy, num_incident, num_cycles,
                  LAMBDA e : <<e.electrode_idx, e.energy_idx, e.incident_idx,
                               e.cycle>>,
                  LAMBDA e : e.voltage, buffer, at[5], 4, "float")
    /\ \A k \in 1..Len(data.output_hv) :
          data.output_hv[k].electrode
             = electrode_names[data.output_hv[k].electrode_idx + 1]
    /\ Enumerated(data.data_quality,
                  num_energy, num_azimuthal, num_incident, num_cycles,
                  LAMBDA e : <<e.energy_idx, e.azimuthal_idx, e.incident_idx,
                               e.cycle>>,
                  LAMBDA e : e.quality, buffer, at[8], 1, "uint")

\* C30: in a decoded record the list of every field with more than one
\* axis holds every index tuple of the field once, in lexicographic order
\* of the field's axes with the cycle innermost, and the value of the k-th
\* entry is the k-th value the field's loops read.
C30_EntryEnumeration ==
    (call.op = "parse_bitstring" /\ ~Raised(call.ret))
        => Bind(fromhex(call.arg).bytes, LAMBDA buffer :
              EnumeratedAll(call.ret, buffer, Offsets))

\* the encoding of the record whose elements all differ from their
\* neighbours was decoded
C30_Witness ==
    /\ call.op = "parse_bitstring"
    /\ ~Raised(call.ret)
    /\ call.cut = 0
    /\ call.record = RampRecord
    /\ Len(call.ret.output_hv)
          = num_electrode * num_energy * num_incident * num_cycles
    /\ call.ret.output_hv[2].cycle = 1
    /\ call.ret.output_hv[2].voltage # call.ret.output_hv[1].voltage

=============================================================================
